---- MODULE Spec2Model ----
(***************************************************************************)
(* GreenGen: the token-reward accrual engine (rewardUtils.ts), the Rewards *)
(* page that shares the user_tokens account with it, and the admin         *)
(* authorization resolver (adminUtils.ts, dbUtils.ts).                     *)
(*                                                                         *)
(* Every client is a browser tab running one asynchronous call chain at a  *)
(* time.  One action is one request executed by the store together with    *)
(* the client code that runs on its response up to the next await.         *)
(***************************************************************************)
EXTENDS Bags, FiniteSets, Integers, Sequences, TLC

\* ---------------------------------------------------------------- bounds
NumClients == 2
MaxCalls == 3
MaxTabCalls == 4
MaxAdminCalls == 3
MaxSeqAdminCalls == 3
MaxSeqLedger == 18
MaxCoreCalls == 2
MaxRaceCalls == 5
MaxAllCalls == 4
MaxRepeatCalls == 3
MaxStartupCalls == 4
MaxEventCalls == 4
MaxReportCalls == 2

Clients == 1..NumClients

\* ------------------------------------------------------------ input sets
UserIds == {"u1", "u2"}
WasteSizes == {"small", "medium", "large", "huge", "Small", ""}
RacingSizes == {"small", "large"}
Titles == {"Beach cleanup"}
RewardCosts == {20}
Outcomes == {"ok", "error", "throw"}

VARIABLES
    token_transactions,  \* bag of ledger rows (table token_transactions)
    user_tokens,         \* sequence of account rows (table user_tokens)
    admin_users,         \* sequence of membership rows (table admin_users)
    redeemed_rewards,    \* sequence of redemption rows (table redeemed_rewards)
    adminUnique,         \* whether admin_users carries UNIQUE (user_id)
    waste_reports,       \* sequence of report rows (table waste_reports)
    reportPage,          \* per client: the ReportWaste page's submission
    session,             \* per client: the signed-in user and its email
    userTokens,          \* per client: the Rewards page's userTokens state
    calls,               \* per client: the call in flight
    hist,                \* per client: the calls that returned, in order
    ncalls               \* number of calls started so far

vars == <<token_transactions, user_tokens, admin_users, redeemed_rewards,
          adminUnique, waste_reports, reportPage, session, userTokens, calls, hist,
          ncalls>>

tables == <<token_transactions, user_tokens, admin_users, redeemed_rewards>>

\* ------------------------------------------------------- store primitives
RowsOf(table, u) == SelectSeq(table, LAMBDA r : r.user_id = u)

\* .maybeSingle(): null for no row, the row for one, an error for several
maybeSingle(rows) ==
    IF Len(rows) > 1 THEN [error |-> TRUE, data |-> <<>>]
    ELSE [error |-> FALSE, data |-> rows]

\* .single(): the row for exactly one, error PGRST116 otherwise
single(rows) ==
    IF Len(rows) = 1 THEN [error |-> FALSE, data |-> rows]
    ELSE [error |-> TRUE, data |-> <<>>]

UserTokensUniqueViolation_None(u) == FALSE

\* user_tokens.user_id is the table's unique key
UserTokensUniqueViolation(u) == Len(RowsOf(user_tokens, u)) > 0

\* .update(patch).eq('user_id', u) rewrites every matching row
UpdateBalanceLevel(table, u, b, l) ==
    [i \in 1..Len(table) |->
        IF table[i].user_id = u
        THEN [table[i] EXCEPT !.balance = b, !.level = l]
        ELSE table[i]]

UpdateBalance(table, u, b) ==
    [i \in 1..Len(table) |->
        IF table[i].user_id = u
        THEN [table[i] EXCEPT !.balance = b]
        ELSE table[i]]

\* --------------------------------------------------------- rewardUtils.ts
getTokensForWasteSize_Unknown5(wasteSize) ==
    CASE wasteSize = "small" -> 5
      [] wasteSize = "medium" -> 15
      [] wasteSize = "large" -> 30
      [] OTHER -> 5

getTokensForWasteSize(wasteSize) ==
    CASE wasteSize = "small" -> 5
      [] wasteSize = "medium" -> 15
      [] wasteSize = "large" -> 30
      [] OTHER -> 0

\* level of a freshly created account (rewardUtils.ts line 56)
FirstLevel(tokenAmount) == IF tokenAmount >= 50 THEN 2 ELSE 1

NewLevel_Strict(newBalance) ==
    IF newBalance > 500 THEN 5
    ELSE IF newBalance > 300 THEN 4
    ELSE IF newBalance > 150 THEN 3
    ELSE IF newBalance > 50 THEN 2
    ELSE 1

\* level of an updated account (rewardUtils.ts lines 72-76)
NewLevel(newBalance) ==
    IF newBalance >= 500 THEN 5
    ELSE IF newBalance >= 300 THEN 4
    ELSE IF newBalance >= 150 THEN 3
    ELSE IF newBalance >= 50 THEN 2
    ELSE 1

EarnedRow_Spent(userId, tokenAmount, reportTitle) ==
    [user_id |-> userId, amount |-> tokenAmount,
     description |-> <<"Waste report: ", reportTitle>>,
     transaction_type |-> "spent", source_type |-> "waste_report"]

EarnedRow(userId, tokenAmount, reportTitle) ==
    [user_id |-> userId, amount |-> tokenAmount,
     description |-> <<"Waste report: ", reportTitle>>,
     transaction_type |-> "earned", source_type |-> "waste_report"]

SpentRow(userId, cost) ==
    [user_id |-> userId, amount |-> cost,
     description |-> <<"Redeemed: ", "reward">>,
     transaction_type |-> "spent", source_type |-> "reward_redemption"]

\* ------------------------------------------------------------ call records
Idle ==
    [op |-> "none", pc |-> "idle", userId |-> "", wasteSize |-> "",
     title |-> "", tokenAmount |-> 0, cost |-> 0, existing |-> <<>>,
     email |-> <<>>, ret |-> FALSE, log |-> <<>>]

Logged(c, call, outcome) == [c EXCEPT !.log = Append(c.log, <<call, outcome>>)]

Done(c, r) == [c EXCEPT !.pc = "done", !.ret = r]

\* updateUserTokensForReport, lines 17-24: the call and the size lookup.
\* It is made from the report page, so the tab's Rewards page is not mounted.
AwardCall(p, userId, wasteSize, reportTitle) ==
    /\ calls[p].pc = "idle"
    /\ userId # ""
    /\ userTokens' = [userTokens EXCEPT ![p] = <<>>]
    /\ LET tokenAmount == getTokensForWasteSize(wasteSize)
           c == [Idle EXCEPT !.op = "award", !.userId = userId,
                             !.wasteSize = wasteSize, !.title = reportTitle,
                             !.tokenAmount = tokenAmount]
       IN calls' = [calls EXCEPT ![p] =
                      IF tokenAmount = 0 THEN Done(c, FALSE)
                      ELSE [c EXCEPT !.pc = "txInsert"]]
    /\ UNCHANGED <<tables, adminUnique, waste_reports, reportPage, session, hist>>

AwardTxInsert_IgnoreError(p, outcome) ==
    /\ calls[p].op = "award" /\ calls[p].pc = "txInsert"
    /\ LET c == Logged(calls[p], "token_transactions.insert", outcome)
       IN /\ calls' = [calls EXCEPT ![p] = [c EXCEPT !.pc = "fetch"]]
          /\ IF outcome = "ok"
             THEN token_transactions' = token_transactions (+)
                     SetToBag({EarnedRow(c.userId, c.tokenAmount, c.title)})
             ELSE UNCHANGED token_transactions
    /\ UNCHANGED <<user_tokens, admin_users, redeemed_rewards, adminUnique,
                   waste_reports, reportPage, session, userTokens, hist>>

AwardTxInsert_Retries(p, outcome) ==
    /\ calls[p].op = "award" /\ calls[p].pc = "txInsert"
    /\ LET c == Logged(calls[p], "token_transactions.insert", outcome)
       IN IF outcome = "ok"
          THEN /\ token_transactions' = token_transactions (+)
                     SetToBag({EarnedRow(c.userId, c.tokenAmount, c.title)})
               /\ calls' = [calls EXCEPT ![p] = [c EXCEPT !.pc = "fetch"]]
          ELSE /\ calls' = [calls EXCEPT ![p] =
                               IF Len(c.log) < 2 THEN c ELSE Done(c, FALSE)]
               /\ UNCHANGED token_transactions
    /\ UNCHANGED <<user_tokens, admin_users, redeemed_rewards, adminUnique,
                   waste_reports, reportPage, session, userTokens, hist>>

\* lines 26-40: insert the ledger row
AwardTxInsert(p, outcome) ==
    /\ calls[p].op = "award" /\ calls[p].pc = "txInsert"
    /\ LET c == Logged(calls[p], "token_transactions.insert", outcome)
       IN IF outcome = "ok"
          THEN /\ token_transactions' = token_transactions (+)
                     SetToBag({EarnedRow(c.userId, c.tokenAmount, c.title)})
               /\ calls' = [calls EXCEPT ![p] = [c EXCEPT !.pc = "fetch"]]
          ELSE /\ calls' = [calls EXCEPT ![p] = Done(c, FALSE)]
               /\ UNCHANGED token_transactions
    /\ UNCHANGED <<user_tokens, admin_users, redeemed_rewards, adminUnique,
                   waste_reports, reportPage, session, userTokens, hist>>

AwardFetch_Uncaught(p, outcome) ==
    /\ calls[p].op = "award" /\ calls[p].pc = "fetch"
    /\ LET res == maybeSingle(RowsOf(user_tokens, calls[p].userId))
           eff == IF outcome = "ok" /\ res.error THEN "error" ELSE outcome
           c == Logged(calls[p], "user_tokens.select", eff)
       IN calls' = [calls EXCEPT ![p] =
                      IF eff = "throw" THEN [c EXCEPT !.pc = "raised"]
                      ELSE IF eff # "ok" THEN Done(c, FALSE)
                      ELSE IF res.data = <<>>
                      THEN [c EXCEPT !.pc = "acctInsert"]
                      ELSE [c EXCEPT !.pc = "acctUpdate",
                                     !.existing = res.data]]
    /\ UNCHANGED <<tables, adminUnique, waste_reports, reportPage, session, userTokens, hist>>

\* lines 42-54: read the account row
AwardFetch(p, outcome) ==
    /\ calls[p].op = "award" /\ calls[p].pc = "fetch"
    /\ LET res == maybeSingle(RowsOf(user_tokens, calls[p].userId))
           eff == IF outcome = "ok" /\ res.error THEN "error" ELSE outcome
           c == Logged(calls[p], "user_tokens.select", eff)
       IN calls' = [calls EXCEPT ![p] =
                      IF eff # "ok" THEN Done(c, FALSE)
                      ELSE IF res.data = <<>>
                      THEN [c EXCEPT !.pc = "acctInsert"]
                      ELSE [c EXCEPT !.pc = "acctUpdate",
                                     !.existing = res.data]]
    /\ UNCHANGED <<tables, adminUnique, waste_reports, reportPage, session, userTokens, hist>>

AwardAcctInsert_Compensates(p, outcome) ==
    /\ calls[p].op = "award" /\ calls[p].pc = "acctInsert"
    /\ LET eff == IF outcome = "ok" /\ UserTokensUniqueViolation(calls[p].userId)
                  THEN "error" ELSE outcome
           c == Logged(calls[p], "user_tokens.insert", eff)
           newLevel == FirstLevel(c.tokenAmount)
       IN IF eff = "ok"
          THEN /\ user_tokens' = Append(user_tokens,
                     [user_id |-> c.userId, balance |-> c.tokenAmount,
                      level |-> newLevel])
               /\ calls' = [calls EXCEPT ![p] = Done(c, TRUE)]
               /\ UNCHANGED token_transactions
          ELSE /\ calls' = [calls EXCEPT ![p] = Done(c, FALSE)]
               /\ token_transactions' = token_transactions (-)
                     SetToBag({EarnedRow(c.userId, c.tokenAmount, c.title)})
               /\ UNCHANGED user_tokens
    /\ UNCHANGED <<admin_users, redeemed_rewards,
                   adminUnique, waste_reports, reportPage, session, userTokens, hist>>

\* lines 54-68: create the account row
AwardAcctInsert(p, outcome) ==
    /\ calls[p].op = "award" /\ calls[p].pc = "acctInsert"
    /\ LET eff == IF outcome = "ok" /\ UserTokensUniqueViolation(calls[p].userId)
                  THEN "error" ELSE outcome
           c == Logged(calls[p], "user_tokens.insert", eff)
           newLevel == FirstLevel(c.tokenAmount)
       IN IF eff = "ok"
          THEN /\ user_tokens' = Append(user_tokens,
                     [user_id |-> c.userId, balance |-> c.tokenAmount,
                      level |-> newLevel])
               /\ calls' = [calls EXCEPT ![p] = Done(c, TRUE)]
          ELSE /\ calls' = [calls EXCEPT ![p] = Done(c, FALSE)]
               /\ UNCHANGED user_tokens
    /\ UNCHANGED <<token_transactions, admin_users, redeemed_rewards,
                   adminUnique, waste_reports, reportPage, session, userTokens, hist>>

AwardAcctUpdate_Increment(p, outcome) ==
    /\ calls[p].op = "award" /\ calls[p].pc = "acctUpdate"
    /\ LET c == Logged(calls[p], "user_tokens.update", outcome)
           stored == RowsOf(user_tokens, c.userId)
           newBalance == stored[1].balance + c.tokenAmount
           newLevel == NewLevel(newBalance)
       IN IF outcome = "ok"
          THEN /\ user_tokens' = UpdateBalanceLevel(user_tokens, c.userId,
                                                    newBalance, newLevel)
               /\ calls' = [calls EXCEPT ![p] = Done(c, TRUE)]
          ELSE /\ calls' = [calls EXCEPT ![p] = Done(c, FALSE)]
               /\ UNCHANGED user_tokens
    /\ UNCHANGED <<token_transactions, admin_users, redeemed_rewards,
                   adminUnique, waste_reports, reportPage, session, userTokens, hist>>

AwardAcctUpdate_IgnoreError(p, outcome) ==
    /\ calls[p].op = "award" /\ calls[p].pc = "acctUpdate"
    /\ LET c == Logged(calls[p], "user_tokens.update", outcome)
           newBalance == c.existing[1].balance + c.tokenAmount
           newLevel == NewLevel(newBalance)
       IN /\ calls' = [calls EXCEPT ![p] = Done(c, TRUE)]
          /\ IF outcome = "ok"
             THEN user_tokens' = UpdateBalanceLevel(user_tokens, c.userId,
                                                    newBalance, newLevel)
             ELSE UNCHANGED user_tokens
    /\ UNCHANGED <<token_transactions, admin_users, redeemed_rewards,
                   adminUnique, waste_reports, reportPage, session, userTokens, hist>>

\* lines 69-94: update the account row
AwardAcctUpdate(p, outcome) ==
    /\ calls[p].op = "award" /\ calls[p].pc = "acctUpdate"
    /\ LET c == Logged(calls[p], "user_tokens.update", outcome)
           newBalance == c.existing[1].balance + c.tokenAmount
           newLevel == NewLevel(newBalance)
       IN IF outcome = "ok"
          THEN /\ user_tokens' = UpdateBalanceLevel(user_tokens, c.userId,
                                                    newBalance, newLevel)
               /\ calls' = [calls EXCEPT ![p] = Done(c, TRUE)]
          ELSE /\ calls' = [calls EXCEPT ![p] = Done(c, FALSE)]
               /\ UNCHANGED user_tokens
    /\ UNCHANGED <<token_transactions, admin_users, redeemed_rewards,
                   adminUnique, waste_reports, reportPage, session, userTokens, hist>>

\* the caller takes the result; the client is free for its next call
Failed(log) == \E i \in 1..Len(log) : log[i][2] \in {"error", "throw"}

Issued(log, call) == \E i \in 1..Len(log) : log[i][1] = call

Summary(c) ==
    [op |-> c.op, userId |-> c.userId, ret |-> c.ret,
     failed |-> Failed(c.log), inserted |-> Issued(c.log, "admin_users.insert")]

Return(p) ==
    /\ calls[p].pc = "done"
    /\ hist' = [hist EXCEPT ![p] = Append(hist[p], Summary(calls[p]))]
    /\ calls' = [calls EXCEPT ![p] = Idle]
    /\ UNCHANGED <<tables, adminUnique, waste_reports, reportPage, session, userTokens>>

\* the same, for a caller whose past results are not tracked
Settle(p) ==
    /\ calls[p].pc = "done"
    /\ calls' = [calls EXCEPT ![p] = Idle]
    /\ UNCHANGED <<tables, adminUnique, waste_reports, reportPage, session, userTokens, hist>>

\* the same, for a caller that keeps the call it made last
Remember(p) ==
    /\ calls[p].pc = "done"
    /\ hist' = [hist EXCEPT ![p] = <<calls[p]>>]
    /\ calls' = [calls EXCEPT ![p] = Idle]
    /\ UNCHANGED <<tables, adminUnique, waste_reports, reportPage, session, userTokens>>

\* ------------------------------------------------- Rewards page (part_004)
\* the page mounts with userTokens = null and starts fetchUserTokens
FetchUserTokensCall(p) ==
    /\ calls[p].pc = "idle"
    /\ session[p].user # ""
    /\ calls' = [calls EXCEPT ![p] =
                   [Idle EXCEPT !.op = "fetchUserTokens", !.pc = "ftSelect",
                                !.userId = session[p].user]]
    /\ userTokens' = [userTokens EXCEPT ![p] = <<>>]
    /\ UNCHANGED <<tables, adminUnique, waste_reports, reportPage, session, hist>>

\* lines 261-283: read the row with .single(); PGRST116 leads to the insert
FetchUserTokensSelect(p, outcome) ==
    /\ calls[p].op = "fetchUserTokens" /\ calls[p].pc = "ftSelect"
    /\ LET res == single(RowsOf(user_tokens, calls[p].userId))
           eff == IF outcome = "ok" /\ res.error THEN "PGRST116" ELSE outcome
           c == Logged(calls[p], "user_tokens.select", eff)
       IN /\ calls' = [calls EXCEPT ![p] =
                         IF eff = "PGRST116" THEN [c EXCEPT !.pc = "ftInsert"]
                         ELSE Done(c, eff = "ok")]
          /\ userTokens' = [userTokens EXCEPT ![p] =
                              IF eff = "ok"
                              THEN <<[balance |-> res.data[1].balance,
                                      level |-> res.data[1].level]>>
                              ELSE @]
    /\ UNCHANGED <<tables, adminUnique, waste_reports, reportPage, session, hist>>

\* lines 269-277: lazily create the zero-balance row
FetchUserTokensInsert(p, outcome) ==
    /\ calls[p].op = "fetchUserTokens" /\ calls[p].pc = "ftInsert"
    /\ LET eff == IF outcome = "ok" /\ UserTokensUniqueViolation(calls[p].userId)
                  THEN "error" ELSE outcome
           c == Logged(calls[p], "user_tokens.insert", eff)
       IN /\ calls' = [calls EXCEPT ![p] = Done(c, eff = "ok")]
          /\ IF eff = "ok"
             THEN /\ user_tokens' = Append(user_tokens,
                        [user_id |-> c.userId, balance |-> 0, level |-> 1])
                  /\ userTokens' = [userTokens EXCEPT ![p] =
                                      <<[balance |-> 0, level |-> 1]>>]
             ELSE UNCHANGED <<user_tokens, userTokens>>
    /\ UNCHANGED <<token_transactions, admin_users, redeemed_rewards,
                   adminUnique, waste_reports, reportPage, session, hist>>

RedeemCall_NoBalanceCheck(p, token_cost) ==
    /\ calls[p].pc = "idle"
    /\ session[p].user # ""
    /\ userTokens[p] # <<>>
    /\ LET c == [Idle EXCEPT !.op = "redeem", !.userId = session[p].user,
                             !.cost = token_cost, !.existing = userTokens[p]]
       IN calls' = [calls EXCEPT ![p] = [c EXCEPT !.pc = "rdInsert"]]
    /\ UNCHANGED <<tables, adminUnique, waste_reports, reportPage, session, userTokens, hist>>

\* handleRedeemReward, lines 376-388: the guards on the page's cached balance
RedeemCall(p, token_cost) ==
    /\ calls[p].pc = "idle"
    /\ session[p].user # ""
    /\ userTokens[p] # <<>>
    /\ LET c == [Idle EXCEPT !.op = "redeem", !.userId = session[p].user,
                             !.cost = token_cost, !.existing = userTokens[p]]
       IN calls' = [calls EXCEPT ![p] =
                      IF userTokens[p][1].balance < token_cost
                      THEN Done(c, FALSE)
                      ELSE [c EXCEPT !.pc = "rdInsert"]]
    /\ UNCHANGED <<tables, adminUnique, waste_reports, reportPage, session, userTokens, hist>>

\* lines 392-403: insert the redeemed_rewards row
RedeemInsert(p, outcome) ==
    /\ calls[p].op = "redeem" /\ calls[p].pc = "rdInsert"
    /\ LET c == Logged(calls[p], "redeemed_rewards.insert", outcome)
       IN IF outcome = "ok"
          THEN /\ redeemed_rewards' = Append(redeemed_rewards,
                     [user_id |-> c.userId, token_cost |-> c.cost,
                      status |-> "pending"])
               /\ calls' = [calls EXCEPT ![p] = [c EXCEPT !.pc = "rdTx"]]
          ELSE /\ calls' = [calls EXCEPT ![p] = Done(c, FALSE)]
               /\ UNCHANGED redeemed_rewards
    /\ UNCHANGED <<token_transactions, user_tokens, admin_users, adminUnique,
                   waste_reports, reportPage, session, userTokens, hist>>

\* lines 405-417: insert the 'spent' ledger row
RedeemTxInsert(p, outcome) ==
    /\ calls[p].op = "redeem" /\ calls[p].pc = "rdTx"
    /\ LET c == Logged(calls[p], "token_transactions.insert", outcome)
       IN IF outcome = "ok"
          THEN /\ token_transactions' = token_transactions (+)
                     SetToBag({SpentRow(c.userId, c.cost)})
               /\ calls' = [calls EXCEPT ![p] = [c EXCEPT !.pc = "rdUpdate"]]
          ELSE /\ calls' = [calls EXCEPT ![p] = Done(c, FALSE)]
               /\ UNCHANGED token_transactions
    /\ UNCHANGED <<user_tokens, admin_users, redeemed_rewards, adminUnique,
                   waste_reports, reportPage, session, userTokens, hist>>

RedeemUpdate_RollsBackLedger(p, outcome) ==
    /\ calls[p].op = "redeem" /\ calls[p].pc = "rdUpdate"
    /\ LET c == Logged(calls[p], "user_tokens.update", outcome)
           newBalance == c.existing[1].balance - c.cost
       IN IF outcome = "ok"
          THEN /\ user_tokens' = UpdateBalance(user_tokens, c.userId, newBalance)
               /\ userTokens' = [userTokens EXCEPT ![p] =
                                   <<[c.existing[1] EXCEPT !.balance = newBalance]>>]
               /\ calls' = [calls EXCEPT ![p] = Done(c, TRUE)]
               /\ UNCHANGED token_transactions
          ELSE /\ calls' = [calls EXCEPT ![p] = Done(c, FALSE)]
               /\ token_transactions' = token_transactions (-)
                     SetToBag({SpentRow(c.userId, c.cost)})
               /\ UNCHANGED <<user_tokens, userTokens>>
    /\ UNCHANGED <<admin_users, redeemed_rewards, adminUnique, waste_reports, reportPage, session, hist>>

\* lines 419-434: write the cached balance minus the cost, then the state
RedeemUpdate(p, outcome) ==
    /\ calls[p].op = "redeem" /\ calls[p].pc = "rdUpdate"
    /\ LET c == Logged(calls[p], "user_tokens.update", outcome)
           newBalance == c.existing[1].balance - c.cost
       IN IF outcome = "ok"
          THEN /\ user_tokens' = UpdateBalance(user_tokens, c.userId, newBalance)
               /\ userTokens' = [userTokens EXCEPT ![p] =
                                   <<[c.existing[1] EXCEPT !.balance = newBalance]>>]
               /\ calls' = [calls EXCEPT ![p] = Done(c, TRUE)]
          ELSE /\ calls' = [calls EXCEPT ![p] = Done(c, FALSE)]
               /\ UNCHANGED <<user_tokens, userTokens>>
    /\ UNCHANGED <<token_transactions, admin_users, redeemed_rewards,
                   adminUnique, waste_reports, reportPage, session, hist>>

\* ------------------------------------------------------------ identities
NoEmail == <<>>
ADMIN_EMAIL == <<"r","u","b","u","b","a","s","u","m","a","t","a","r","y",
                 "m","i","o","n","j","u","5","6","@","g","m","a","i","l",
                 ".","c","o","m">>
OtherEmail == <<"U","2","@","x",".","i","o">>
MixedCaseAdminEmail == [ADMIN_EMAIL EXCEPT ![1] = "R", ![30] = "C"]

SignedIn(u, e) == [user |-> u, email |-> e]
NoSession == SignedIn("", NoEmail)

UpperCase == <<"A","B","C","D","E","F","G","H","I","J","K","L","M",
               "N","O","P","Q","R","S","T","U","V","W","X","Y","Z">>
LowerCase == <<"a","b","c","d","e","f","g","h","i","j","k","l","m",
               "n","o","p","q","r","s","t","u","v","w","x","y","z">>

\* String.prototype.toLowerCase, character by character
toLowerCase(str) ==
    [i \in 1..Len(str) |->
        IF \E k \in 1..26 : UpperCase[k] = str[i]
        THEN LowerCase[CHOOSE k \in 1..26 : UpperCase[k] = str[i]]
        ELSE str[i]]

EmailIsAdmin_CaseSensitive(email) == email = ADMIN_EMAIL

\* email?.toLowerCase() === ADMIN_EMAIL.toLowerCase(); undefined never matches
EmailIsAdmin(email) ==
    email # NoEmail /\ toLowerCase(email) = toLowerCase(ADMIN_EMAIL)

\* ---------------------------------------------- adminUtils.ts, dbUtils.ts
\* replies of supabase.rpc('is_admin'): thrown, or {data, error}
RpcReplies ==
    {[thrown |-> TRUE, error |-> FALSE, data |-> "null"]} \cup
    [thrown : {FALSE}, error : BOOLEAN, data : {"true", "false", "null", "1"}]

RpcReplyName(r) ==
    IF r.thrown THEN "throw"
    ELSE IF r.error THEN "error"
    ELSE r.data

\* checkUserIsAdmin, line 9
IsAdminCall(p, userId) ==
    /\ calls[p].pc = "idle"
    /\ LET c == [Idle EXCEPT !.op = "isAdmin", !.userId = userId]
       IN calls' = [calls EXCEPT ![p] =
                      IF userId = "" THEN Done(c, FALSE)
                      ELSE [c EXCEPT !.pc = "getUser"]]
    /\ UNCHANGED <<tables, adminUnique, waste_reports, reportPage, session, userTokens, hist>>

IsAdminGetUser_Upserts(p, outcome) ==
    /\ calls[p].op = "isAdmin" /\ calls[p].pc = "getUser"
    /\ LET email == IF outcome = "ok" THEN session[p].email ELSE NoEmail
           c == [Logged(calls[p], "auth.getUser", outcome) EXCEPT !.email = email]
       IN /\ calls' = [calls EXCEPT ![p] =
                         IF outcome = "throw" THEN Done(c, FALSE)
                         ELSE IF EmailIsAdmin(email) THEN Done(c, TRUE)
                         ELSE [c EXCEPT !.pc = "lookup"]]
          /\ admin_users' =
                IF EmailIsAdmin(email) /\ RowsOf(admin_users, c.userId) = <<>>
                THEN Append(admin_users, [user_id |-> c.userId])
                ELSE admin_users
    /\ UNCHANGED <<token_transactions, user_tokens, redeemed_rewards,
                   adminUnique, waste_reports, reportPage, session, userTokens, hist>>

IsAdminGetUser_OwnIdOnly(p, outcome) ==
    /\ calls[p].op = "isAdmin" /\ calls[p].pc = "getUser"
    /\ LET email == IF outcome = "ok" THEN session[p].email ELSE NoEmail
           c == [Logged(calls[p], "auth.getUser", outcome) EXCEPT !.email = email]
       IN calls' = [calls EXCEPT ![p] =
                      IF outcome = "throw" THEN Done(c, FALSE)
                      ELSE IF EmailIsAdmin(email) /\ c.userId = session[p].user
                      THEN Done(c, TRUE)
                      ELSE [c EXCEPT !.pc = "lookup"]]
    /\ UNCHANGED <<tables, adminUnique, waste_reports, reportPage, session, userTokens, hist>>

IsAdminGetUser_NoShortCircuit(p, outcome) ==
    /\ calls[p].op = "isAdmin" /\ calls[p].pc = "getUser"
    /\ LET email == IF outcome = "ok" THEN session[p].email ELSE NoEmail
           c == [Logged(calls[p], "auth.getUser", outcome) EXCEPT !.email = email]
       IN calls' = [calls EXCEPT ![p] =
                      IF outcome = "throw" THEN Done(c, FALSE)
                      ELSE [c EXCEPT !.pc = "lookup"]]
    /\ UNCHANGED <<tables, adminUnique, waste_reports, reportPage, session, userTokens, hist>>

\* lines 12-17: the identity fetch and the email check
IsAdminGetUser(p, outcome) ==
    /\ calls[p].op = "isAdmin" /\ calls[p].pc = "getUser"
    /\ LET email == IF outcome = "ok" THEN session[p].email ELSE NoEmail
           c == [Logged(calls[p], "auth.getUser", outcome) EXCEPT !.email = email]
       IN calls' = [calls EXCEPT ![p] =
                      IF outcome = "throw" THEN Done(c, FALSE)
                      ELSE IF EmailIsAdmin(email) THEN Done(c, TRUE)
                      ELSE [c EXCEPT !.pc = "lookup"]]
    /\ UNCHANGED <<tables, adminUnique, waste_reports, reportPage, session, userTokens, hist>>

IsAdminLookup_NeedsEmail(p, outcome) ==
    /\ calls[p].op = "isAdmin" /\ calls[p].pc = "lookup"
    /\ LET res == maybeSingle(RowsOf(admin_users, calls[p].userId))
           adminError == outcome = "error" \/ res.error
           adminData == IF adminError THEN <<>> ELSE res.data
           eff == IF outcome = "throw" THEN "throw"
                  ELSE IF adminError THEN "error"
                  ELSE IF adminData # <<>> THEN "found" ELSE "none"
           c == Logged(calls[p], "admin_users.select", eff)
       IN calls' = [calls EXCEPT ![p] =
                      IF outcome = "throw" THEN Done(c, EmailIsAdmin(c.email))
                      ELSE IF ~adminError /\ adminData # <<>>
                      THEN Done(c, EmailIsAdmin(c.email))
                      ELSE [c EXCEPT !.pc = "rpc"]]
    /\ UNCHANGED <<tables, adminUnique, waste_reports, reportPage, session, userTokens, hist>>

\* lines 19-36: the admin_users lookup
IsAdminLookup(p, outcome) ==
    /\ calls[p].op = "isAdmin" /\ calls[p].pc = "lookup"
    /\ LET res == maybeSingle(RowsOf(admin_users, calls[p].userId))
           adminError == outcome = "error" \/ res.error
           adminData == IF adminError THEN <<>> ELSE res.data
           eff == IF outcome = "throw" THEN "throw"
                  ELSE IF adminError THEN "error"
                  ELSE IF adminData # <<>> THEN "found" ELSE "none"
           c == Logged(calls[p], "admin_users.select", eff)
       IN calls' = [calls EXCEPT ![p] =
                      IF outcome = "throw" THEN Done(c, EmailIsAdmin(c.email))
                      ELSE IF ~adminError /\ adminData # <<>> THEN Done(c, TRUE)
                      ELSE [c EXCEPT !.pc = "rpc"]]
    /\ UNCHANGED <<tables, adminUnique, waste_reports, reportPage, session, userTokens, hist>>

IsAdminRpc_IgnoresError(p, reply) ==
    /\ calls[p].op = "isAdmin" /\ calls[p].pc = "rpc"
    /\ LET c == Logged(calls[p], "rpc.is_admin", RpcReplyName(reply))
       IN calls' = [calls EXCEPT ![p] =
                      IF reply.thrown THEN Done(c, FALSE)
                      ELSE IF reply.data = "true" THEN Done(c, TRUE)
                      ELSE Done(c, FALSE)]
    /\ UNCHANGED <<tables, adminUnique, waste_reports, reportPage, session, userTokens, hist>>

IsAdminRpc_Truthy(p, reply) ==
    /\ calls[p].op = "isAdmin" /\ calls[p].pc = "rpc"
    /\ LET c == Logged(calls[p], "rpc.is_admin", RpcReplyName(reply))
       IN calls' = [calls EXCEPT ![p] =
                      IF reply.thrown THEN Done(c, FALSE)
                      ELSE IF reply.data \in {"true", "1"} THEN Done(c, TRUE)
                      ELSE Done(c, FALSE)]
    /\ UNCHANGED <<tables, adminUnique, waste_reports, reportPage, session, userTokens, hist>>

\* lines 38-52: the is_admin remote procedure
IsAdminRpc(p, reply) ==
    /\ calls[p].op = "isAdmin" /\ calls[p].pc = "rpc"
    /\ LET c == Logged(calls[p], "rpc.is_admin", RpcReplyName(reply))
       IN calls' = [calls EXCEPT ![p] =
                      IF reply.thrown THEN Done(c, FALSE)
                      ELSE IF ~reply.error /\ reply.data = "true" THEN Done(c, TRUE)
                      ELSE Done(c, FALSE)]
    /\ UNCHANGED <<tables, adminUnique, waste_reports, reportPage, session, userTokens, hist>>

\* an insert into admin_users fails on a duplicate when the table was created
\* with CONSTRAINT unique_user_id (App.tsx), not when created by the fallback
AdminUsersUniqueViolation(u) == adminUnique /\ Len(RowsOf(admin_users, u)) > 0

\* addAdminUser, line 74
AddAdminUserCall(p, userId) ==
    /\ calls[p].pc = "idle"
    /\ calls' = [calls EXCEPT ![p] =
                   [Idle EXCEPT !.op = "addAdminUser", !.pc = "amSelect",
                                !.userId = userId]]
    /\ UNCHANGED <<tables, adminUnique, waste_reports, reportPage, session, userTokens, hist>>

\* addUserToAdminTable (adminUtils.ts lines 117-131): false for an empty
\* userId, otherwise the result of addAdminUser(userId)
AddUserToAdminTableCall(p, userId) ==
    /\ calls[p].pc = "idle"
    /\ calls' = [calls EXCEPT ![p] =
                   IF userId = ""
                   THEN Done([Idle EXCEPT !.op = "addUserToAdminTable"], FALSE)
                   ELSE [Idle EXCEPT !.op = "addAdminUser", !.pc = "amSelect",
                                     !.userId = userId]]
    /\ UNCHANGED <<tables, adminUnique, waste_reports, reportPage, session, userTokens, hist>>

AddAdminUserSelect_NoCheck(p, outcome) ==
    /\ calls[p].op = "addAdminUser" /\ calls[p].pc = "amSelect"
    /\ LET res == maybeSingle(RowsOf(admin_users, calls[p].userId))
           eff == IF outcome = "ok" /\ res.error THEN "error" ELSE outcome
           c == Logged(calls[p], "admin_users.select", eff)
       IN calls' = [calls EXCEPT ![p] =
                      IF eff # "ok" THEN Done(c, FALSE)
                      ELSE [c EXCEPT !.pc = "amInsert"]]
    /\ UNCHANGED <<tables, adminUnique, waste_reports, reportPage, session, userTokens, hist>>

\* lines 76-91: look the membership row up
AddAdminUserSelect(p, outcome) ==
    /\ calls[p].op = "addAdminUser" /\ calls[p].pc = "amSelect"
    /\ LET res == maybeSingle(RowsOf(admin_users, calls[p].userId))
           eff == IF outcome = "ok" /\ res.error THEN "error" ELSE outcome
           c == Logged(calls[p], "admin_users.select", eff)
       IN calls' = [calls EXCEPT ![p] =
                      IF eff # "ok" THEN Done(c, FALSE)
                      ELSE IF res.data # <<>> THEN Done(c, TRUE)
                      ELSE [c EXCEPT !.pc = "amInsert"]]
    /\ UNCHANGED <<tables, adminUnique, waste_reports, reportPage, session, userTokens, hist>>

AddAdminUserInsert_IgnoreError(p, outcome) ==
    /\ calls[p].op = "addAdminUser" /\ calls[p].pc = "amInsert"
    /\ LET eff == IF outcome = "ok" /\ AdminUsersUniqueViolation(calls[p].userId)
                  THEN "error" ELSE outcome
           c == Logged(calls[p], "admin_users.insert", eff)
       IN /\ calls' = [calls EXCEPT ![p] = Done(c, TRUE)]
          /\ IF eff = "ok"
             THEN admin_users' = Append(admin_users, [user_id |-> c.userId])
             ELSE UNCHANGED admin_users
    /\ UNCHANGED <<token_transactions, user_tokens, redeemed_rewards,
                   adminUnique, waste_reports, reportPage, session, userTokens, hist>>

\* lines 93-106: insert the membership row
AddAdminUserInsert(p, outcome) ==
    /\ calls[p].op = "addAdminUser" /\ calls[p].pc = "amInsert"
    /\ LET eff == IF outcome = "ok" /\ AdminUsersUniqueViolation(calls[p].userId)
                  THEN "error" ELSE outcome
           c == Logged(calls[p], "admin_users.insert", eff)
       IN IF eff = "ok"
          THEN /\ admin_users' = Append(admin_users, [user_id |-> c.userId])
               /\ calls' = [calls EXCEPT ![p] = Done(c, TRUE)]
          ELSE /\ calls' = [calls EXCEPT ![p] = Done(c, FALSE)]
               /\ UNCHANGED admin_users
    /\ UNCHANGED <<token_transactions, user_tokens, redeemed_rewards,
                   adminUnique, waste_reports, reportPage, session, userTokens, hist>>

\* ------------------------------------- ReportWaste.handleSubmit (part_002)
\* the page between submissions: nothing in flight, no toast shown yet
NoSubmission ==
    [pc |-> "form", wasteSize |-> "", title |-> "", imageFile |-> FALSE,
     imageUrl |-> "null", toast |-> "none", tokenSuccess |-> FALSE]

Verifications == {"none", "notAuthentic", "notWaste", "waste"}

\* lines 325-352: the guards on the session and on the image verification,
\* then the branch on imageFile
HandleSubmit(p, wasteSize, title, verification, hasImage) ==
    /\ reportPage[p].pc = "form" /\ calls[p].pc = "idle"
    /\ reportPage' = [reportPage EXCEPT ![p] =
          IF session[p].user = "" \/ verification \in {"notAuthentic", "notWaste"}
          THEN [NoSubmission EXCEPT !.toast = "error"]
          ELSE [NoSubmission EXCEPT !.wasteSize = wasteSize, !.title = title,
                  !.imageFile = hasImage,
                  !.pc = IF hasImage THEN "upload" ELSE "insert"]]
    /\ UNCHANGED <<tables, adminUnique, waste_reports, session, userTokens,
                   calls, hist>>

\* lines 355-378: upload the image; a failure is thrown to the catch block
SubmitUpload(p, outcome) ==
    /\ reportPage[p].pc = "upload"
    /\ reportPage' = [reportPage EXCEPT ![p] =
          IF outcome = "ok" THEN [@ EXCEPT !.pc = "insert", !.imageUrl = "publicUrl"]
          ELSE [@ EXCEPT !.pc = "form", !.toast = "error"]]
    /\ UNCHANGED <<tables, adminUnique, waste_reports, session, userTokens,
                   calls, hist>>

SubmitInsert_AwardsAnyway(p, outcome) ==
    /\ reportPage[p].pc = "insert"
    /\ reportPage' = [reportPage EXCEPT ![p] = [@ EXCEPT !.pc = "award"]]
    /\ waste_reports' =
          IF outcome = "ok"
          THEN Append(waste_reports,
                      [user_id |-> session[p].user, title |-> reportPage[p].title,
                       waste_size |-> reportPage[p].wasteSize,
                       image_url |-> reportPage[p].imageUrl,
                       status |-> "approved"])
          ELSE waste_reports
    /\ UNCHANGED <<tables, adminUnique, session, userTokens, calls, hist>>

\* lines 380-396: insert the report row; a failure is thrown to the catch
SubmitInsert(p, outcome) ==
    /\ reportPage[p].pc = "insert"
    /\ IF outcome = "ok"
       THEN /\ waste_reports' = Append(waste_reports,
                      [user_id |-> session[p].user, title |-> reportPage[p].title,
                       waste_size |-> reportPage[p].wasteSize,
                       image_url |-> reportPage[p].imageUrl,
                       status |-> "approved"])
            /\ reportPage' = [reportPage EXCEPT ![p] = [@ EXCEPT !.pc = "award"]]
       ELSE /\ reportPage' = [reportPage EXCEPT ![p] =
                                [@ EXCEPT !.pc = "form", !.toast = "error"]]
            /\ UNCHANGED waste_reports
    /\ UNCHANGED <<tables, adminUnique, session, userTokens, calls, hist>>

\* line 402: call updateUserTokensForReport(user.id, wasteSize, title)
SubmitAward(p) ==
    /\ reportPage[p].pc = "award"
    /\ AwardCall(p, session[p].user, reportPage[p].wasteSize, reportPage[p].title)

\* lines 402-429: take the award's result, show the success toast in either
\* case and reset the form
SubmitFinish(p) ==
    /\ reportPage[p].pc = "award"
    /\ calls[p].op = "award" /\ calls[p].pc = "done"
    /\ reportPage' = [reportPage EXCEPT ![p] =
          [@ EXCEPT !.pc = "form", !.toast = "success",
                    !.tokenSuccess = calls[p].ret]]
    /\ calls' = [calls EXCEPT ![p] = Idle]
    /\ UNCHANGED <<tables, adminUnique, waste_reports, session, userTokens, hist>>

\* ------------------------------------------------- the reward specification
InitTables ==
    /\ token_transactions = EmptyBag
    /\ user_tokens = <<>>
    /\ admin_users = <<>>
    /\ redeemed_rewards = <<>>
    /\ waste_reports = <<>>

InitClients ==
    /\ userTokens = [p \in Clients |-> <<>>]
    /\ calls = [p \in Clients |-> Idle]
    /\ reportPage = [p \in Clients |-> NoSubmission]
    /\ hist = [p \in Clients |-> <<>>]
    /\ ncalls = 0

\* the first two tabs belong to one reporter or to two, any further tab to
\* the second reporter
Init ==
    /\ InitTables
    /\ InitClients
    /\ adminUnique = TRUE
    /\ session \in {s \in [Clients -> {SignedIn("u1", ADMIN_EMAIL),
                                       SignedIn("u2", OtherEmail)}] :
                      /\ s[1].user = "u1"
                      /\ \A p \in Clients : p > 2 => s[p].user = "u2"}

Next ==
    \E p \in Clients :
        \/ /\ ncalls < MaxCalls /\ ncalls' = ncalls + 1
           /\ \E w \in RacingSizes, t \in Titles :
                 AwardCall(p, session[p].user, w, t)
        \/ ncalls < MaxCalls /\ ncalls' = ncalls + 1 /\ FetchUserTokensCall(p)
        \/ /\ ncalls < MaxCalls /\ ncalls' = ncalls + 1
           /\ \E k \in RewardCosts : RedeemCall(p, k)
        \/ UNCHANGED ncalls /\ \E o \in Outcomes : AwardTxInsert(p, o)
        \/ UNCHANGED ncalls /\ \E o \in Outcomes : AwardFetch(p, o)
        \/ UNCHANGED ncalls /\ \E o \in Outcomes : AwardAcctInsert(p, o)
        \/ UNCHANGED ncalls /\ \E o \in Outcomes : AwardAcctUpdate(p, o)
        \/ UNCHANGED ncalls /\ \E o \in Outcomes : FetchUserTokensSelect(p, o)
        \/ UNCHANGED ncalls /\ \E o \in Outcomes : FetchUserTokensInsert(p, o)
        \/ UNCHANGED ncalls /\ \E o \in Outcomes : RedeemInsert(p, o)
        \/ UNCHANGED ncalls /\ \E o \in Outcomes : RedeemTxInsert(p, o)
        \/ UNCHANGED ncalls /\ \E o \in Outcomes : RedeemUpdate(p, o)
        \/ UNCHANGED ncalls /\ Settle(p)

Spec == Init /\ [][Next]_vars

\* --------------------- one tab: reports, the Rewards page and redemptions
InitTab ==
    /\ InitTables
    /\ InitClients
    /\ adminUnique = TRUE
    /\ session = [p \in Clients |-> SignedIn("u2", OtherEmail)]

NextTab ==
    \/ /\ ncalls < MaxTabCalls /\ ncalls' = ncalls + 1
       /\ \E w \in WasteSizes, t \in Titles : AwardCall(1, session[1].user, w, t)
    \/ ncalls < MaxTabCalls /\ ncalls' = ncalls + 1 /\ FetchUserTokensCall(1)
    \/ /\ ncalls < MaxTabCalls /\ ncalls' = ncalls + 1
       /\ \E k \in RewardCosts : RedeemCall(1, k)
    \/ UNCHANGED ncalls /\ \E o \in Outcomes : AwardTxInsert(1, o)
    \/ UNCHANGED ncalls /\ \E o \in Outcomes : AwardFetch(1, o)
    \/ UNCHANGED ncalls /\ \E o \in Outcomes : AwardAcctInsert(1, o)
    \/ UNCHANGED ncalls /\ \E o \in Outcomes : AwardAcctUpdate(1, o)
    \/ UNCHANGED ncalls /\ \E o \in Outcomes : FetchUserTokensSelect(1, o)
    \/ UNCHANGED ncalls /\ \E o \in Outcomes : FetchUserTokensInsert(1, o)
    \/ UNCHANGED ncalls /\ \E o \in Outcomes : RedeemInsert(1, o)
    \/ UNCHANGED ncalls /\ \E o \in Outcomes : RedeemTxInsert(1, o)
    \/ UNCHANGED ncalls /\ \E o \in Outcomes : RedeemUpdate(1, o)
    \/ UNCHANGED ncalls /\ Settle(1)

SpecTab == InitTab /\ [][NextTab]_vars

\* -------------------------------------------- the authorization specification
InitAdmin ==
    /\ InitTables
    /\ InitClients
    /\ adminUnique \in BOOLEAN
    /\ \E s \in {SignedIn("u1", ADMIN_EMAIL), SignedIn("u1", MixedCaseAdminEmail),
                  SignedIn("u2", OtherEmail), NoSession} :
          session = [p \in Clients |-> s]

\* tabs of one browser profile, each calling with the signed-in user's id
NextAdmin ==
    \E p \in Clients :
        \/ /\ ncalls < MaxAdminCalls /\ ncalls' = ncalls + 1
           /\ IsAdminCall(p, session[p].user)
        \/ /\ ncalls < MaxAdminCalls /\ ncalls' = ncalls + 1
           /\ session[p].user # ""
           /\ AddAdminUserCall(p, session[p].user)
        \/ UNCHANGED ncalls /\ \E o \in Outcomes : IsAdminGetUser(p, o)
        \/ UNCHANGED ncalls /\ \E o \in Outcomes : IsAdminLookup(p, o)
        \/ UNCHANGED ncalls /\ \E r \in RpcReplies : IsAdminRpc(p, r)
        \/ UNCHANGED ncalls /\ \E o \in Outcomes : AddAdminUserSelect(p, o)
        \/ UNCHANGED ncalls /\ \E o \in Outcomes : AddAdminUserInsert(p, o)
        \/ UNCHANGED ncalls /\ Settle(p)

SpecAdmin == InitAdmin /\ [][NextAdmin]_vars

\* ------- one caller, authorization calls one after the other, any argument
NextAdminSeq ==
    \/ /\ ncalls < MaxSeqAdminCalls /\ ncalls' = ncalls + 1
       /\ \E u \in UserIds \cup {""} : IsAdminCall(1, u)
    \/ /\ ncalls < MaxSeqAdminCalls /\ ncalls' = ncalls + 1
       /\ \E u \in UserIds : AddAdminUserCall(1, u)
    \/ /\ ncalls < MaxSeqAdminCalls /\ ncalls' = ncalls + 1
       /\ AddUserToAdminTableCall(1, session[1].user)
    \/ UNCHANGED ncalls /\ \E o \in Outcomes : IsAdminGetUser(1, o)
    \/ UNCHANGED ncalls /\ \E o \in Outcomes : IsAdminLookup(1, o)
    \/ UNCHANGED ncalls /\ \E r \in RpcReplies : IsAdminRpc(1, r)
    \/ UNCHANGED ncalls /\ \E o \in Outcomes : AddAdminUserSelect(1, o)
    \/ UNCHANGED ncalls /\ \E o \in Outcomes : AddAdminUserInsert(1, o)
    \/ UNCHANGED ncalls /\ Return(1)

SpecAdminSeq == InitAdmin /\ [][NextAdminSeq]_vars

\* ------------------------------ one reporter, accruals one after the other
InitSeq ==
    /\ InitTables
    /\ InitClients
    /\ adminUnique = TRUE
    /\ session = [p \in Clients |-> SignedIn("u1", ADMIN_EMAIL)]

NextSeq ==
    \/ /\ BagCardinality(token_transactions) < MaxSeqLedger
       /\ UNCHANGED ncalls
       /\ \E w \in WasteSizes, t \in Titles : AwardCall(1, session[1].user, w, t)
    \/ UNCHANGED ncalls /\ \E o \in Outcomes : AwardTxInsert(1, o)
    \/ UNCHANGED ncalls /\ \E o \in Outcomes : AwardFetch(1, o)
    \/ UNCHANGED ncalls /\ \E o \in Outcomes : AwardAcctInsert(1, o)
    \/ UNCHANGED ncalls /\ \E o \in Outcomes : AwardAcctUpdate(1, o)
    \/ UNCHANGED ncalls /\ Settle(1)

SpecSeq == InitSeq /\ [][NextSeq]_vars

\* ----- one caller of the three exported operations, with any argument
NextCore ==
    \/ /\ ncalls < MaxCoreCalls /\ ncalls' = ncalls + 1
       /\ \E u \in UserIds, w \in WasteSizes, t \in Titles : AwardCall(1, u, w, t)
    \/ /\ ncalls < MaxCoreCalls /\ ncalls' = ncalls + 1
       /\ \E u \in UserIds \cup {""} : IsAdminCall(1, u)
    \/ /\ ncalls < MaxCoreCalls /\ ncalls' = ncalls + 1
       /\ \E u \in UserIds : AddAdminUserCall(1, u)
    \/ /\ ncalls < MaxCoreCalls /\ ncalls' = ncalls + 1
       /\ \E u \in UserIds \cup {""} : AddUserToAdminTableCall(1, u)
    \/ UNCHANGED ncalls /\ \E o \in Outcomes : AwardTxInsert(1, o)
    \/ UNCHANGED ncalls /\ \E o \in Outcomes : AwardFetch(1, o)
    \/ UNCHANGED ncalls /\ \E o \in Outcomes : AwardAcctInsert(1, o)
    \/ UNCHANGED ncalls /\ \E o \in Outcomes : AwardAcctUpdate(1, o)
    \/ UNCHANGED ncalls /\ \E o \in Outcomes : IsAdminGetUser(1, o)
    \/ UNCHANGED ncalls /\ \E o \in Outcomes : IsAdminLookup(1, o)
    \/ UNCHANGED ncalls /\ \E r \in RpcReplies : IsAdminRpc(1, r)
    \/ UNCHANGED ncalls /\ \E o \in Outcomes : AddAdminUserSelect(1, o)
    \/ UNCHANGED ncalls /\ \E o \in Outcomes : AddAdminUserInsert(1, o)
    \/ UNCHANGED ncalls /\ Settle(1)

SpecCore == InitAdmin /\ [][NextCore]_vars

\* ----- tabs of one user: 'large' reports, the Rewards page, redemptions
InitRace ==
    /\ InitTables
    /\ InitClients
    /\ adminUnique = TRUE
    /\ session = [p \in Clients |-> SignedIn("u2", OtherEmail)]

NextRace ==
    \E p \in Clients :
        \/ /\ ncalls < MaxRaceCalls /\ ncalls' = ncalls + 1
           /\ \E t \in Titles : AwardCall(p, session[p].user, "large", t)
        \/ ncalls < MaxRaceCalls /\ ncalls' = ncalls + 1 /\ FetchUserTokensCall(p)
        \/ /\ ncalls < MaxRaceCalls /\ ncalls' = ncalls + 1
           /\ \E k \in RewardCosts : RedeemCall(p, k)
        \/ UNCHANGED ncalls /\ \E o \in Outcomes : AwardTxInsert(p, o)
        \/ UNCHANGED ncalls /\ \E o \in Outcomes : AwardFetch(p, o)
        \/ UNCHANGED ncalls /\ \E o \in Outcomes : AwardAcctInsert(p, o)
        \/ UNCHANGED ncalls /\ \E o \in Outcomes : AwardAcctUpdate(p, o)
        \/ UNCHANGED ncalls /\ \E o \in Outcomes : FetchUserTokensSelect(p, o)
        \/ UNCHANGED ncalls /\ \E o \in Outcomes : FetchUserTokensInsert(p, o)
        \/ UNCHANGED ncalls /\ \E o \in Outcomes : RedeemInsert(p, o)
        \/ UNCHANGED ncalls /\ \E o \in Outcomes : RedeemTxInsert(p, o)
        \/ UNCHANGED ncalls /\ \E o \in Outcomes : RedeemUpdate(p, o)
        \/ UNCHANGED ncalls /\ Settle(p)

SpecRace == InitRace /\ [][NextRace]_vars

\* ----- one signed-in tab using every operation: reports, the Rewards page,
\* redemptions, admin checks and membership upserts
NextAll ==
    \/ /\ ncalls < MaxAllCalls /\ ncalls' = ncalls + 1
       /\ \E w \in RacingSizes, t \in Titles : AwardCall(1, session[1].user, w, t)
    \/ ncalls < MaxAllCalls /\ ncalls' = ncalls + 1 /\ FetchUserTokensCall(1)
    \/ /\ ncalls < MaxAllCalls /\ ncalls' = ncalls + 1
       /\ \E k \in RewardCosts : RedeemCall(1, k)
    \/ /\ ncalls < MaxAllCalls /\ ncalls' = ncalls + 1
       /\ IsAdminCall(1, session[1].user)
    \/ /\ ncalls < MaxAllCalls /\ ncalls' = ncalls + 1
       /\ AddUserToAdminTableCall(1, session[1].user)
    \/ UNCHANGED ncalls /\ \E o \in Outcomes : AwardTxInsert(1, o)
    \/ UNCHANGED ncalls /\ \E o \in Outcomes : AwardFetch(1, o)
    \/ UNCHANGED ncalls /\ \E o \in Outcomes : AwardAcctInsert(1, o)
    \/ UNCHANGED ncalls /\ \E o \in Outcomes : AwardAcctUpdate(1, o)
    \/ UNCHANGED ncalls /\ \E o \in Outcomes : FetchUserTokensSelect(1, o)
    \/ UNCHANGED ncalls /\ \E o \in Outcomes : FetchUserTokensInsert(1, o)
    \/ UNCHANGED ncalls /\ \E o \in Outcomes : RedeemInsert(1, o)
    \/ UNCHANGED ncalls /\ \E o \in Outcomes : RedeemTxInsert(1, o)
    \/ UNCHANGED ncalls /\ \E o \in Outcomes : RedeemUpdate(1, o)
    \/ UNCHANGED ncalls /\ \E o \in Outcomes : IsAdminGetUser(1, o)
    \/ UNCHANGED ncalls /\ \E o \in Outcomes : IsAdminLookup(1, o)
    \/ UNCHANGED ncalls /\ \E r \in RpcReplies : IsAdminRpc(1, r)
    \/ UNCHANGED ncalls /\ \E o \in Outcomes : AddAdminUserSelect(1, o)
    \/ UNCHANGED ncalls /\ \E o \in Outcomes : AddAdminUserInsert(1, o)
    \/ UNCHANGED ncalls /\ Settle(1)

SpecAll == InitAdmin /\ [][NextAll]_vars

\* ----- one caller repeating its admin checks, the last call remembered
NextAdminRepeat ==
    \/ /\ ncalls < MaxRepeatCalls /\ ncalls' = ncalls + 1
       /\ \E u \in UserIds \cup {""} : IsAdminCall(1, u)
    \/ /\ ncalls < MaxRepeatCalls /\ ncalls' = ncalls + 1
       /\ \E u \in UserIds \cup {""} : AddUserToAdminTableCall(1, u)
    \/ UNCHANGED ncalls /\ \E o \in Outcomes : IsAdminGetUser(1, o)
    \/ UNCHANGED ncalls /\ \E o \in Outcomes : IsAdminLookup(1, o)
    \/ UNCHANGED ncalls /\ \E r \in RpcReplies : IsAdminRpc(1, r)
    \/ UNCHANGED ncalls /\ \E o \in Outcomes : AddAdminUserSelect(1, o)
    \/ UNCHANGED ncalls /\ \E o \in Outcomes : AddAdminUserInsert(1, o)
    \/ UNCHANGED ncalls /\ Remember(1)

SpecAdminRepeat == InitAdmin /\ [][NextAdminRepeat]_vars

\* ----- start-up of an AuthProvider whose store answers every request: each
\* client is one chain of the application: first the provider's hook
\* (AuthContext.tsx 21-46, 94-99: addAdminUser for an administrator session),
\* then admin checks of the pages, each followed by addUserToAdminTable when
\* it returned true (AdminEventManager.checkAdminStatus)
HookPending(p) == EmailIsAdmin(session[p].email) /\ hist[p] = <<>>

NextStartup ==
    \E p \in Clients :
        \/ /\ ncalls < MaxStartupCalls /\ ncalls' = ncalls + 1
           /\ HookPending(p)
           /\ AddAdminUserCall(p, session[p].user)
        \/ /\ ncalls < MaxStartupCalls /\ ncalls' = ncalls + 1
           /\ ~HookPending(p) /\ session[p].user # ""
           /\ IsAdminCall(p, session[p].user)
        \/ /\ ncalls < MaxStartupCalls /\ ncalls' = ncalls + 1
           /\ hist[p] # <<>>
           /\ hist[p][Len(hist[p])].op = "isAdmin" /\ hist[p][Len(hist[p])].ret
           /\ AddUserToAdminTableCall(p, session[p].user)
        \/ UNCHANGED ncalls /\ IsAdminGetUser(p, "ok")
        \/ UNCHANGED ncalls /\ IsAdminLookup(p, "ok")
        \/ /\ UNCHANGED ncalls
           /\ \E r \in {x \in RpcReplies : ~x.thrown /\ ~x.error /\
                                              x.data \in {"true", "false"}} :
                 IsAdminRpc(p, r)
        \/ UNCHANGED ncalls /\ AddAdminUserSelect(p, "ok")
        \/ UNCHANGED ncalls /\ AddAdminUserInsert(p, "ok")
        \/ UNCHANGED ncalls /\ Return(p)

SpecStartup == InitAdmin /\ [][NextStartup]_vars

\* ----- the CollectWaste page with its AdminEventManager: client 1 runs the
\* admin checks (CollectWaste.checkAdmin, then the mounted component's
\* checkAdminStatus), client 2 the component's handleSubmit; hist[1] holds
\* the results the checks have delivered
\* CollectWaste.tsx 116-117: the component is rendered once the page's own
\* check has returned true
Mounted == Len(hist[1]) >= 1 /\ hist[1][1].ret

\* the component's isAdmin state is still null: its check has not returned
\* and no handleSubmit has set it
IsAdminNull ==
    /\ Len(hist[1]) = 1
    /\ \A i \in 1..Len(hist[2]) : ~hist[2][i].ret

NextEvents ==
    \/ /\ ncalls < MaxEventCalls /\ ncalls' = ncalls + 1
       /\ hist[1] = <<>> /\ session[1].user # ""
       /\ IsAdminCall(1, session[1].user)
    \/ /\ ncalls < MaxEventCalls /\ ncalls' = ncalls + 1
       /\ Mounted /\ Len(hist[1]) = 1
       /\ IsAdminCall(1, session[1].user)
    \/ /\ ncalls < MaxEventCalls /\ ncalls' = ncalls + 1
       /\ Mounted /\ Len(hist[1]) = 2 /\ hist[1][2].ret
       /\ AddUserToAdminTableCall(1, session[1].user)
    \/ /\ ncalls < MaxEventCalls /\ ncalls' = ncalls + 1
       /\ Mounted /\ IsAdminNull
       /\ AddUserToAdminTableCall(2, session[2].user)
    \/ UNCHANGED ncalls /\ \E o \in Outcomes : IsAdminGetUser(1, o)
    \/ UNCHANGED ncalls /\ \E o \in Outcomes : IsAdminLookup(1, o)
    \/ UNCHANGED ncalls /\ \E r \in RpcReplies : IsAdminRpc(1, r)
    \/ UNCHANGED ncalls /\ \E p \in 1..2, o \in Outcomes : AddAdminUserSelect(p, o)
    \/ UNCHANGED ncalls /\ \E p \in 1..2, o \in Outcomes : AddAdminUserInsert(p, o)
    \/ UNCHANGED ncalls /\ \E p \in 1..2 : Return(p)

SpecEvents == InitAdmin /\ [][NextEvents]_vars

\* ----- one tab on the ReportWaste page: submissions of reports with and
\* without image, with every outcome of the store
InitReport ==
    /\ InitTables
    /\ InitClients
    /\ adminUnique = TRUE
    /\ \E s \in {SignedIn("u2", OtherEmail), NoSession} :
          session = [p \in Clients |-> s]

NextReport ==
    \/ /\ ncalls < MaxReportCalls /\ ncalls' = ncalls + 1
       /\ \E w \in WasteSizes, t \in Titles, v \in Verifications, i \in BOOLEAN :
             HandleSubmit(1, w, t, v, i)
    \/ UNCHANGED ncalls /\ \E o \in Outcomes : SubmitUpload(1, o)
    \/ UNCHANGED ncalls /\ \E o \in Outcomes : SubmitInsert(1, o)
    \/ UNCHANGED ncalls /\ SubmitAward(1)
    \/ UNCHANGED ncalls /\ \E o \in Outcomes : AwardTxInsert(1, o)
    \/ UNCHANGED ncalls /\ \E o \in Outcomes : AwardFetch(1, o)
    \/ UNCHANGED ncalls /\ \E o \in Outcomes : AwardAcctInsert(1, o)
    \/ UNCHANGED ncalls /\ \E o \in Outcomes : AwardAcctUpdate(1, o)
    \/ UNCHANGED ncalls /\ SubmitFinish(1)

SpecReport == InitReport /\ [][NextReport]_vars

\* ====================================================== checked properties
\* the level thresholds of the account, as a table
ThresholdLevel(b) ==
    CASE b >= 500 -> 5
      [] b >= 300 /\ b < 500 -> 4
      [] b >= 150 /\ b < 300 -> 3
      [] b >= 50 /\ b < 150 -> 2
      [] OTHER -> 1

RECURSIVE SumAmounts(_, _)
SumAmounts(rows, bag) ==
    IF rows = {} THEN 0
    ELSE LET r == CHOOSE x \in rows : TRUE
         IN r.amount * CopiesIn(r, bag) + SumAmounts(rows \ {r}, bag)

LedgerTotal(u, kind) ==
    SumAmounts({r \in BagToSet(token_transactions) :
                   r.user_id = u /\ r.transaction_type = kind},
               token_transactions)

StoredBalance(u) ==
    IF RowsOf(user_tokens, u) = <<>> THEN 0 ELSE RowsOf(user_tokens, u)[1].balance

AccountCalls == {"user_tokens.select", "user_tokens.insert", "user_tokens.update"}

AdminEmails == {ADMIN_EMAIL, MixedCaseAdminEmail}

\* C1: a call with wasteSize small, medium or large awards 5, 15 or 30 (the
\* amount of the ledger row it inserts); a call with any other string awards
\* 0, returns false at once and leaves the ledger and the accounts as they were.
C1_SizeTable ==
    [][\A p \in Clients :
        /\ (calls[p].pc = "idle" /\ calls'[p].op = "award") =>
              LET c == calls'[p]
              IN /\ c.wasteSize = "small" => c.tokenAmount = 5 /\ c.pc = "txInsert"
                 /\ c.wasteSize = "medium" => c.tokenAmount = 15 /\ c.pc = "txInsert"
                 /\ c.wasteSize = "large" => c.tokenAmount = 30 /\ c.pc = "txInsert"
                 /\ c.wasteSize \notin {"small", "medium", "large"} =>
                       /\ c.tokenAmount = 0
                       /\ c.pc = "done" /\ c.ret = FALSE /\ c.log = <<>>
                 /\ token_transactions' = token_transactions
                 /\ user_tokens' = user_tokens
        /\ (calls[p].op = "award" /\ calls[p].pc = "txInsert"
               /\ calls'[p].pc = "fetch") =>
              \E r \in BagToSet(token_transactions') :
                 /\ r.user_id = calls[p].userId
                 /\ r.amount = (CASE calls[p].wasteSize = "small" -> 5
                                  [] calls[p].wasteSize = "medium" -> 15
                                  [] calls[p].wasteSize = "large" -> 30)
                 /\ token_transactions' = token_transactions (+) SetToBag({r})
        /\ (calls[p].op = "award" /\ calls[p].pc = "acctInsert"
               /\ calls'[p].ret) =>
              StoredBalance(calls[p].userId)' =
                 (CASE calls[p].wasteSize = "small" -> 5
                    [] calls[p].wasteSize = "medium" -> 15
                    [] calls[p].wasteSize = "large" -> 30)
    ]_vars

\* an unrecognised size was refused while the ledger already held entries
C1_Witness ==
    /\ calls[1].op = "award" /\ calls[1].pc = "done"
    /\ calls[1].wasteSize = "" /\ calls[1].ret = FALSE
    /\ LedgerTotal("u1", "earned") = 20
    /\ StoredBalance("u1") = 20

\* C2: in one accrual the account is read or written only after the ledger
\* insert succeeded; a failed ledger insert (error or exception) ends the call
\* with false, without an account request and without a change to user_tokens.
C2_LedgerFirst ==
    /\ [](\A p \in Clients : calls[p].op = "award" =>
            /\ \A i \in 1..Len(calls[p].log) :
                  calls[p].log[i][1] \in AccountCalls =>
                     /\ i > 1
                     /\ calls[p].log[1] = <<"token_transactions.insert", "ok">>
            /\ (calls[p].log # <<>> /\ calls[p].log[1][2] # "ok") =>
                  /\ calls[p].pc = "done" /\ calls[p].ret = FALSE
                  /\ Len(calls[p].log) = 1)
    /\ [][\A p \in Clients :
            /\ (calls[p].op = "award" /\ calls[p].pc = "txInsert"
                   /\ calls'[p] # calls[p]) => user_tokens' = user_tokens
            /\ (calls[p].op = "award" /\ calls'[p] # calls[p]
                   /\ user_tokens' # user_tokens) =>
                  calls[p].log[1] = <<"token_transactions.insert", "ok">>
       ]_vars

\* a ledger insert threw for a user who already has an account row
C2_Witness ==
    \E p \in Clients :
        /\ calls[p].op = "award" /\ calls[p].pc = "done"
        /\ calls[p].log = << <<"token_transactions.insert", "throw">> >>
        /\ RowsOf(user_tokens, calls[p].userId) # <<>>
        /\ StoredBalance(calls[p].userId) = LedgerTotal(calls[p].userId, "earned")

\* C3: along accruals made one after the other for a user who starts without
\* an account row, the stored level is the threshold level of the stored
\* balance (at creation and after every update) and never decreases.
C3_LevelFollowsBalance ==
    /\ [](\A i \in 1..Len(user_tokens) :
            user_tokens[i].level = ThresholdLevel(user_tokens[i].balance))
    /\ [][/\ Len(user_tokens') >= Len(user_tokens)
          /\ \A i \in 1..Len(user_tokens) :
                /\ user_tokens'[i].level >= user_tokens[i].level
                /\ user_tokens'[i].balance >= user_tokens[i].balance
          /\ (calls[1].pc = "acctUpdate" /\ calls'[1].ret) =>
                /\ StoredBalance("u1")' = StoredBalance("u1") + calls[1].tokenAmount
                /\ user_tokens'[1].level = ThresholdLevel(StoredBalance("u1")')
          /\ (calls[1].pc = "acctInsert" /\ calls'[1].ret) =>
                /\ user_tokens = <<>>
                /\ user_tokens'[1].level = ThresholdLevel(calls[1].tokenAmount)
       ]_vars

\* the account reached the top threshold exactly
C3_Witness ==
    /\ calls[1].op = "award" /\ calls[1].pc = "done" /\ calls[1].ret
    /\ Len(user_tokens) = 1
    /\ user_tokens[1].balance = 500 /\ user_tokens[1].level = 5

\* C4: in every reachable state the stored level of every account is the
\* threshold level of its stored balance (accruals, redemptions and the
\* Rewards page's lazy creation included).
C4_LevelMatchesBalance ==
    \A i \in 1..Len(user_tokens) :
        user_tokens[i].level = ThresholdLevel(user_tokens[i].balance)

\* C5: whenever no accrual and no redemption is in flight, every user's
\* earned ledger total minus spent ledger total equals the stored balance.
C5_LedgerMatchesBalance ==
    (\A p \in Clients : calls[p].op \in {"award", "redeem"} => calls[p].pc = "done")
    => \A u \in UserIds :
          LedgerTotal(u, "earned") - LedgerTotal(u, "spent") = StoredBalance(u)

\* C6: nothing guards the read-modify-write of the balance: a successful
\* account update stores the balance this call read plus its own amount,
\* whatever was stored in between, so overlapping accruals can lose an update.
C6_UpdateWritesReadPlusAmount ==
    [][\A p \in Clients :
        (calls[p].op = "award" /\ calls[p].pc = "acctUpdate" /\ calls'[p].ret) =>
            /\ RowsOf(user_tokens', calls[p].userId) # <<>>
            /\ StoredBalance(calls[p].userId)' =
                  calls[p].existing[1].balance + calls[p].tokenAmount
    ]_vars

\* two accruals for one user both returned true, both ledger rows are there,
\* and the stored balance is short of the balance read plus the two amounts
C6_Witness ==
    \E p, q \in Clients :
        /\ p # q
        /\ calls[p].op = "award" /\ calls[q].op = "award"
        /\ calls[p].pc = "done" /\ calls[q].pc = "done"
        /\ calls[p].ret /\ calls[q].ret
        /\ calls[p].userId = calls[q].userId
        /\ calls[p].existing # <<>> /\ calls[p].existing = calls[q].existing
        /\ LedgerTotal(calls[p].userId, "earned") =
              calls[p].existing[1].balance + calls[p].tokenAmount + calls[q].tokenAmount
        /\ StoredBalance(calls[p].userId) <
              calls[p].existing[1].balance + calls[p].tokenAmount + calls[q].tokenAmount

C8_MemberIsAdmin ==
    [][\A p \in Clients :
        (/\ calls[p].op = "isAdmin" /\ calls[p].pc = "lookup"
         /\ calls'[p] # calls[p]
         /\ calls'[p].log[Len(calls'[p].log)][2] \notin {"error", "throw"}
         /\ \E i \in 1..Len(admin_users) : admin_users[i].user_id = calls[p].userId)
        => /\ calls'[p].pc = "done"
           /\ calls'[p].ret = TRUE
    ]_vars

\* a member whose session email is not the administrator's was granted
C8_Witness ==
    \E p \in Clients :
        /\ session[p].email = OtherEmail
        /\ calls[p].op = "isAdmin" /\ calls[p].userId = "u2"
        /\ calls[p].pc = "done" /\ calls[p].ret = TRUE
        /\ calls[p].log = << <<"auth.getUser", "ok">>, <<"admin_users.select", "found">> >>
        /\ admin_users = <<[user_id |-> "u2"]>>

\* C9: isAdmin returns true exactly when one check was positive: the fetched
\* session email is the administrator's, or the lookup returned a row without
\* error, or the remote procedure returned true without error.
C9_TrueOnlyWhenACheckIsPositive ==
    \A p \in Clients : (calls[p].op = "isAdmin" /\ calls[p].pc = "done") =>
        (calls[p].ret = TRUE <=>
            \/ /\ Len(calls[p].log) >= 1
               /\ calls[p].log[1] = <<"auth.getUser", "ok">>
               /\ session[p].email \in AdminEmails
            \/ \E i \in 1..Len(calls[p].log) :
                  calls[p].log[i] = <<"admin_users.select", "found">>
            \/ \E i \in 1..Len(calls[p].log) :
                  calls[p].log[i] = <<"rpc.is_admin", "true">>)

\* a lookup error counted as 'not found' and the procedure said false
C9_Witness ==
    \E p \in Clients :
        /\ calls[p].op = "isAdmin" /\ calls[p].pc = "done" /\ calls[p].ret = FALSE
        /\ calls[p].log = << <<"auth.getUser", "ok">>,
                             <<"admin_users.select", "error">>,
                             <<"rpc.is_admin", "false">> >>
        /\ \E i \in 1..Len(admin_users) : admin_users[i].user_id = calls[p].userId

\* C10: two ensureMembership(u) calls made one after the other by the only
\* writer, neither meeting a store error, both return true, the second issues
\* no insert, and admin_users holds exactly one row for u.
C10_EnsureTwice ==
    \A i \in 1..Len(hist[1]) :
        LET first == hist[1][i]
            second == IF i < Len(hist[1]) THEN hist[1][i + 1]
                      ELSE Summary(calls[1])
        IN (/\ i < Len(hist[1]) \/ calls[1].pc = "done"
            /\ first.op = "addAdminUser" /\ second.op = "addAdminUser"
            /\ first.userId = second.userId
            /\ ~first.failed /\ ~second.failed)
           => /\ first.ret = TRUE /\ second.ret = TRUE
              /\ ~second.inserted
              /\ Len(RowsOf(admin_users, first.userId)) = 1

\* the first call inserted the row, the second found it
C10_Witness ==
    /\ Len(hist[1]) = 2
    /\ hist[1][1] = [op |-> "addAdminUser", userId |-> "u2", ret |-> TRUE,
                     failed |-> FALSE, inserted |-> TRUE]
    /\ hist[1][2] = [op |-> "addAdminUser", userId |-> "u2", ret |-> TRUE,
                     failed |-> FALSE, inserted |-> FALSE]
    /\ ~adminUnique
    /\ admin_users = <<[user_id |-> "u2"]>>

\* C11 as stated: ensureMembership returns false only when its insert of the
\* membership row failed; in every other outcome it returns true.
C11_FalseOnlyOnInsertFailure ==
    \A p \in Clients :
        (calls[p].op \in {"addAdminUser", "addUserToAdminTable"}
            /\ calls[p].pc = "done" /\ calls[p].ret = FALSE) =>
           /\ calls[p].log # <<>>
           /\ calls[p].log[Len(calls[p].log)][1] = "admin_users.insert"
           /\ calls[p].log[Len(calls[p].log)][2] \in {"error", "throw"}

\* C11 amended: ensureMembership(userId) returns false exactly when userId is
\* empty or one of its store requests failed: the lookup of the membership
\* row (no insert is attempted then) or the insert.  A lookup that finds the
\* row returns true without an insert; a lookup that finds none followed by
\* a successful insert returns true; after a true result admin_users holds a
\* row for userId.
C11_FalseOnStoreFailure ==
    \A p \in Clients :
        /\ (calls[p].op = "addUserToAdminTable" /\ calls[p].pc = "done") =>
              calls[p].userId = "" /\ calls[p].ret = FALSE /\ calls[p].log = <<>>
        /\ (calls[p].op = "addAdminUser" /\ calls[p].pc = "done") =>
              LET log == calls[p].log
              IN /\ calls[p].ret = FALSE <=> Failed(log)
                 /\ Len(log) \in {1, 2}
                 /\ log[1][1] = "admin_users.select"
                 /\ Len(log) = 2 =>
                       log[1][2] = "ok" /\ log[2][1] = "admin_users.insert"
                 /\ log[1][2] # "ok" => Len(log) = 1
                 /\ calls[p].ret = TRUE =>
                       RowsOf(admin_users, calls[p].userId) # <<>>

\* the lookup threw: false, although no insert was attempted
C11_Witness ==
    /\ calls[1].op = "addAdminUser" /\ calls[1].pc = "done"
    /\ calls[1].ret = FALSE
    /\ calls[1].log = << <<"admin_users.select", "throw">> >>
    /\ RowsOf(admin_users, calls[1].userId) # <<>>

\* C12: a successful accrual of a recognised size, made while nothing else
\* works on the user's rows, issues exactly the requests ledger insert,
\* account read, account write; the ledger insert appends one entry with
\* amount = tokens(size), kind 'earned', source 'waste_report' and a
\* description built from the title, and no other step touches the ledger;
\* the account write creates the row with balance = tokens(size) when none
\* existed and otherwise stores the previous balance plus tokens(size), with
\* the threshold level of the new balance.
C12_SuccessfulAward ==
    [][LET c == calls[1]
           d == calls'[1]
           t == CASE c.wasteSize = "small" -> 5
                  [] c.wasteSize = "medium" -> 15
                  [] c.wasteSize = "large" -> 30
                  [] OTHER -> 0
       IN /\ (c.op = "award" /\ c.pc = "txInsert" /\ d.pc = "fetch") =>
                /\ token_transactions' = token_transactions (+) SetToBag({
                       [user_id |-> c.userId, amount |-> t,
                        description |-> <<"Waste report: ", c.title>>,
                        transaction_type |-> "earned",
                        source_type |-> "waste_report"]})
                /\ t > 0
                /\ user_tokens' = user_tokens
          /\ (c.pc \in {"idle", "fetch", "acctInsert", "acctUpdate", "done"}) =>
                token_transactions' = token_transactions
          /\ (c.pc \in {"idle", "txInsert", "fetch", "done"}) =>
                user_tokens' = user_tokens
          /\ (c.op = "award" /\ c.pc # "done" /\ d.pc = "done" /\ d.ret) =>
                /\ c.wasteSize \in {"small", "medium", "large"}
                /\ Len(d.log) = 3
                /\ d.log[1] = <<"token_transactions.insert", "ok">>
                /\ d.log[2] = <<"user_tokens.select", "ok">>
                /\ IF RowsOf(user_tokens, c.userId) = <<>>
                   THEN /\ d.log[3] = <<"user_tokens.insert", "ok">>
                        /\ RowsOf(user_tokens', c.userId) =
                              <<[user_id |-> c.userId, balance |-> t,
                                 level |-> ThresholdLevel(t)]>>
                   ELSE /\ d.log[3] = <<"user_tokens.update", "ok">>
                        /\ RowsOf(user_tokens', c.userId) =
                              <<[user_id |-> c.userId,
                                 balance |-> StoredBalance(c.userId) + t,
                                 level |-> ThresholdLevel(StoredBalance(c.userId) + t)]>>
      ]_vars

\* scenario B: balance 45, a medium report, balance 60 and level 2
C12_Witness ==
    /\ calls[1].op = "award" /\ calls[1].pc = "done" /\ calls[1].ret
    /\ calls[1].wasteSize = "medium"
    /\ calls[1].existing = <<[user_id |-> "u1", balance |-> 45, level |-> 1]>>
    /\ user_tokens = <<[user_id |-> "u1", balance |-> 60, level |-> 2]>>
    /\ CopiesIn([user_id |-> "u1", amount |-> 15,
                 description |-> <<"Waste report: ", "Beach cleanup">>,
                 transaction_type |-> "earned", source_type |-> "waste_report"],
                token_transactions) >= 1

\* C13: awardForReport, isAdmin and ensureMembership always resolve to a
\* boolean: a call never stands at a propagated exception; while it waits for
\* a reply, every reply (result, error result, exception) of the identity
\* provider, the store or the remote procedure is taken by a step of the
\* call; and a call whose last request failed or threw has returned a boolean.
C13_AlwaysBoolean ==
    \A p \in Clients :
        LET c == calls[p]
        IN c.op \in {"award", "isAdmin", "addAdminUser", "addUserToAdminTable"} =>
            /\ c.pc \in {"txInsert", "fetch", "acctInsert", "acctUpdate", "getUser",
                          "lookup", "rpc", "amSelect", "amInsert", "done"}
            /\ c.ret \in BOOLEAN
            /\ c.pc = "txInsert" => \A o \in Outcomes : ENABLED AwardTxInsert(p, o)
            /\ c.pc = "fetch" => \A o \in Outcomes : ENABLED AwardFetch(p, o)
            /\ c.pc = "acctInsert" => \A o \in Outcomes : ENABLED AwardAcctInsert(p, o)
            /\ c.pc = "acctUpdate" => \A o \in Outcomes : ENABLED AwardAcctUpdate(p, o)
            /\ c.pc = "getUser" => \A o \in Outcomes : ENABLED IsAdminGetUser(p, o)
            /\ c.pc = "lookup" => \A o \in Outcomes : ENABLED IsAdminLookup(p, o)
            /\ c.pc = "rpc" => \A r \in RpcReplies : ENABLED IsAdminRpc(p, r)
            /\ c.pc = "amSelect" => \A o \in Outcomes : ENABLED AddAdminUserSelect(p, o)
            /\ c.pc = "amInsert" => \A o \in Outcomes : ENABLED AddAdminUserInsert(p, o)
            /\ (c.log # <<>> /\ c.log[Len(c.log)][2] = "throw") => c.pc = "done"
            /\ (c.pc = "done" /\ c.op = "award" /\ Failed(c.log)) => c.ret = FALSE

\* an accrual whose account read threw returned false to a caller that had
\* inserted a membership row with its call before
C13_Witness ==
    /\ calls[1].op = "award" /\ calls[1].pc = "done" /\ calls[1].ret = FALSE
    /\ calls[1].log = << <<"token_transactions.insert", "ok">>,
                         <<"user_tokens.select", "throw">> >>
    /\ ncalls = 2
    /\ admin_users # <<>>

\* C14: isAdmin issues its requests in the order identity fetch, membership
\* lookup, remote procedure, each after the reply to the one before, and
\* stops at the first positive result: after an identity fetch that yields
\* the administrator's email nothing else is requested, and after a lookup
\* that finds the row the procedure is not called.
C14_OrderAndShortCircuit ==
    \A p \in Clients : calls[p].op = "isAdmin" =>
        LET log == calls[p].log
            order == <<"auth.getUser", "admin_users.select", "rpc.is_admin">>
        IN /\ Len(log) <= 3
           /\ \A i \in 1..Len(log) : log[i][1] = order[i]
           /\ calls[p].pc = "getUser" => Len(log) = 0
           /\ calls[p].pc = "lookup" => Len(log) = 1
           /\ calls[p].pc = "rpc" => Len(log) = 2
           /\ (Len(log) >= 1 /\ log[1][2] = "ok"
                  /\ session[p].email \in AdminEmails) =>
                 Len(log) = 1 /\ calls[p].pc = "done" /\ calls[p].ret = TRUE
           /\ (Len(log) >= 2 /\ log[2][2] = "found") =>
                 Len(log) = 2 /\ calls[p].pc = "done" /\ calls[p].ret = TRUE
           /\ (Len(log) = 3 /\ log[3][2] = "true") =>
                 calls[p].pc = "done" /\ calls[p].ret = TRUE

\* a member other than the signed-in user was granted by the lookup, and the
\* procedure was not called
C14_Witness ==
    /\ session[1] = SignedIn("u2", OtherEmail)
    /\ calls[1].op = "isAdmin" /\ calls[1].userId = "u1"
    /\ calls[1].pc = "done" /\ calls[1].ret = TRUE
    /\ Len(calls[1].log) = 2
    /\ ~Issued(calls[1].log, "rpc.is_admin")
    /\ admin_users = <<[user_id |-> "u1"]>>

\* C15: when the email check of isAdmin is negative and the membership
\* lookup fails, by an error result or by an exception, the call goes on to
\* the remote procedure, and returns true if the procedure answers true
\* without error.
C15_LookupFailureFallsThrough ==
    \A p \in Clients :
        LET log == calls[p].log
        IN (/\ calls[p].op = "isAdmin"
            /\ Len(log) >= 2
            /\ log[2][1] = "admin_users.select"
            /\ log[2][2] \in {"error", "throw"})
           => /\ calls[p].pc = "rpc" \/ Len(log) = 3
              /\ Len(log) = 3 => log[3][1] = "rpc.is_admin"
              /\ (Len(log) = 3 /\ log[3][2] = "true") => calls[p].ret = TRUE

\* the user's ledger total (earned minus spent) less the stored balance
LedgerGap(u) == LedgerTotal(u, "earned") - LedgerTotal(u, "spent") - StoredBalance(u)

\* C16: in an accrual whose ledger insert succeeded (raising the user's
\* ledger total over the stored balance by the awarded amount), a failing
\* account read, account insert or account update ends the call with false
\* and changes neither table: the new ledger entry stays, the account row is
\* as it was (or still absent), and the difference stays.  Nothing later
\* repairs it: no step removes a ledger row, and the only step that raises a
\* stored balance is the successful account write of an accrual, by that
\* accrual's own amount.
C16_PartialFailure ==
    [][LET c == calls[1]
           d == calls'[1]
           u == c.userId
       IN /\ (c.op = "award" /\ c.pc = "txInsert" /\ d.pc = "fetch") =>
                /\ LedgerGap(u)' = LedgerGap(u) + c.tokenAmount
                /\ user_tokens' = user_tokens
          /\ (c.op = "award" /\ c.pc = "fetch" /\ d.pc # "done") =>
                UNCHANGED <<token_transactions, user_tokens>>
          /\ (c.op = "award" /\ c.pc \in {"fetch", "acctInsert", "acctUpdate"}
                 /\ d.pc = "done" /\ Failed(d.log)) =>
                /\ d.ret = FALSE
                /\ d.log[1] = <<"token_transactions.insert", "ok">>
                /\ UNCHANGED <<token_transactions, user_tokens>>
                /\ CopiesIn([user_id |-> u, amount |-> c.tokenAmount,
                             description |-> <<"Waste report: ", c.title>>,
                             transaction_type |-> "earned",
                             source_type |-> "waste_report"],
                            token_transactions') >= 1
                /\ LedgerGap(u)' = LedgerGap(u)
          /\ \A r \in BagToSet(token_transactions) :
                CopiesIn(r, token_transactions') >= CopiesIn(r, token_transactions)
          /\ \A v \in UserIds :
                StoredBalance(v)' > StoredBalance(v) =>
                   /\ c.op = "award" /\ c.pc \in {"acctInsert", "acctUpdate"}
                   /\ v = u /\ d.ret = TRUE
                   /\ StoredBalance(v)' = StoredBalance(v) + c.tokenAmount
                   /\ LedgerGap(v)' = LedgerGap(v) - c.tokenAmount
      ]_vars

\* the account update of a 'small' report failed on a balance of 30; the
\* Rewards page opened afterwards shows 30 while the ledger says 35
C16_Witness ==
    /\ calls[1].op = "fetchUserTokens" /\ calls[1].pc = "done"
    /\ userTokens[1] = <<[balance |-> 30, level |-> 1]>>
    /\ user_tokens = <<[user_id |-> "u2", balance |-> 30, level |-> 1]>>
    /\ LedgerTotal("u2", "earned") = 35
    /\ LedgerTotal("u2", "spent") = 0
    /\ LedgerGap("u2") = 5

\* C17 as stated: for any userId argument passed, isAdmin returns true if the
\* session email is the administrator's (in any letter case).
C17_AnyUserIdGranted ==
    \A p \in Clients :
        (calls[p].op = "isAdmin" /\ calls[p].pc = "done"
            /\ session[p].email \in AdminEmails) => calls[p].ret = TRUE

\* C17 amended: the email check depends on the session email alone: for any
\* non-empty userId argument, the session user's or another's, the reply to
\* the identity fetch ends the call with true exactly when the fetch
\* succeeded and the session email is the administrator's (in any letter
\* case); an empty userId returns false before the identity is fetched.
C17_EmailCheckIgnoresUserId ==
    [][\A p \in Clients :
         LET c == calls[p]
             d == calls'[p]
         IN /\ (c.op = "isAdmin" /\ c.pc = "getUser" /\ d # c) =>
                  /\ c.userId # ""
                  /\ (d.pc = "done" /\ d.ret = TRUE) <=>
                        (d.log = << <<"auth.getUser", "ok">> >>
                            /\ session[p].email \in AdminEmails)
            /\ (c.pc = "idle" /\ d.op = "isAdmin" /\ d.userId = "") =>
                  d.pc = "done" /\ d.ret = FALSE /\ d.log = <<>>
      ]_vars

\* the administrator's session asked about another user, who has no
\* membership row, and got true from the email check
C17_Witness ==
    /\ session[1] = SignedIn("u1", ADMIN_EMAIL)
    /\ calls[1].op = "isAdmin" /\ calls[1].userId = "u2"
    /\ calls[1].pc = "done" /\ calls[1].ret = TRUE
    /\ calls[1].log = << <<"auth.getUser", "ok">> >>
    /\ RowsOf(admin_users, "u2") = <<>>
    /\ RowsOf(admin_users, "u1") # <<>>

\* C18: the reply of the remote procedure ends isAdmin with true only when it
\* is the boolean true without an error; a reply with an error, an exception,
\* and the values false, null and a truthy non-boolean end it with false.
C18_RpcExactlyTrue ==
    [][\A p \in Clients :
         LET c == calls[p]
             d == calls'[p]
         IN (c.op = "isAdmin" /\ c.pc = "rpc" /\ d # c) =>
               /\ d.pc = "done"
               /\ Len(d.log) = 3
               /\ d.log[3][1] = "rpc.is_admin"
               /\ d.log[3][2] \in {"throw", "error", "true", "false", "null", "1"}
               /\ d.ret = TRUE <=> d.log[3][2] = "true"
      ]_vars

\* the procedure answered the number 1 without error and isAdmin said false
C18_Witness ==
    /\ calls[1].op = "isAdmin" /\ calls[1].pc = "done" /\ calls[1].ret = FALSE
    /\ Len(calls[1].log) = 3
    /\ calls[1].log[2] = <<"admin_users.select", "none">>
    /\ calls[1].log[3] = <<"rpc.is_admin", "1">>

\* C19: in every reachable state, whatever the interleaving of accruals,
\* Rewards page loads and redemptions by the tabs of one user (redemptions
\* from a stale cached balance included), every stored balance is a natural
\* number and every stored level is in 1..5.
C19_BalanceAndLevelRange ==
    \A i \in 1..Len(user_tokens) :
        /\ user_tokens[i].balance \in Nat
        /\ user_tokens[i].level \in 1..5

\* two tabs loaded a balance of 30 and both redeemed 20 from it: the ledger
\* shows 40 spent of 30 earned and the stored balance is 10
C19_Witness ==
    \E p, q \in Clients :
        /\ p # q
        /\ userTokens[p] = <<[balance |-> 10, level |-> 1]>>
        /\ userTokens[q] = <<[balance |-> 10, level |-> 1]>>
        /\ calls[q].op = "redeem" /\ calls[q].pc = "done" /\ calls[q].ret
        /\ calls[q].existing[1].balance = 30
        /\ LedgerTotal("u2", "earned") = 30
        /\ LedgerTotal("u2", "spent") = 40
        /\ user_tokens = <<[user_id |-> "u2", balance |-> 10, level |-> 1]>>

C21_AppendOnly ==
    [][/\ \A r \in BagToSet(token_transactions) :
             CopiesIn(r, token_transactions') >= CopiesIn(r, token_transactions)
       /\ BagCardinality(token_transactions') <=
             BagCardinality(token_transactions) + 1
       /\ Len(user_tokens') >= Len(user_tokens)
       /\ \A i \in 1..Len(user_tokens) :
             user_tokens'[i].user_id = user_tokens[i].user_id
       /\ calls[1].op \in {"isAdmin", "addAdminUser", "addUserToAdminTable"} =>
             UNCHANGED <<token_transactions, user_tokens>>
      ]_vars

\* a redemption whose balance update failed left its 'spent' entry and the
\* account row behind
C21_Witness ==
    /\ calls[1].op = "redeem" /\ calls[1].pc = "done" /\ calls[1].ret = FALSE
    /\ Len(calls[1].log) = 3
    /\ calls[1].log[3] = <<"user_tokens.update", "error">>
    /\ CopiesIn(SpentRow(calls[1].userId, calls[1].cost), token_transactions) = 1
    /\ BagCardinality(token_transactions) = 2
    /\ Len(user_tokens) = 1

\* the answer of the remote procedure in a call, if it was asked
RpcAnswer(log) == IF Len(log) = 3 THEN log[3][2] ELSE "notasked"

\* two calls agree on the procedure's answer (one that did not ask agrees
\* with any answer)
SameRpcAnswer(a, b) ==
    RpcAnswer(a) = "notasked" \/ RpcAnswer(b) = "notasked" \/ RpcAnswer(a) = RpcAnswer(b)

\* two calls got the same kind of reply from the identity fetch and from the
\* membership lookup, as far as both asked
SameReplies(a, b) ==
    /\ (Len(a) = 0) <=> (Len(b) = 0)
    /\ (Len(a) >= 1 /\ Len(b) >= 1) => a[1][2] = b[1][2]
    /\ (Len(a) >= 2 /\ Len(b) >= 2) => a[2][2] = b[2][2]

\* the call made last and the call that has just finished are two successive
\* isAdmin calls for one userId
SuccessiveIsAdmin ==
    /\ hist[1] # <<>>
    /\ hist[1][1].op = "isAdmin"
    /\ calls[1].op = "isAdmin" /\ calls[1].pc = "done"
    /\ hist[1][1].userId = calls[1].userId

\* C22 as stated: isAdmin writes nothing, and two successive calls under the
\* same session email, the same membership table and the same answer of the
\* remote procedure return the same boolean.
C22_NoWriteSameResult ==
    /\ [][(calls[1].op = "isAdmin" \/ calls'[1].op = "isAdmin") =>
              UNCHANGED <<admin_users, token_transactions, user_tokens,
                          redeemed_rewards>>]_vars
    /\ []((SuccessiveIsAdmin /\ SameRpcAnswer(hist[1][1].log, calls[1].log))
             => calls[1].ret = hist[1][1].ret)

\* C22 amended: isAdmin writes nothing, and two successive calls under the
\* same session email, the same membership table and the same answer of the
\* remote procedure, whose identity fetch and membership lookup resolve the
\* same way in both (success, error result or exception), return the same
\* boolean.
C22_NoWriteSameResultOnSameReplies ==
    /\ [][(calls[1].op = "isAdmin" \/ calls'[1].op = "isAdmin") =>
              UNCHANGED <<admin_users, token_transactions, user_tokens,
                          redeemed_rewards>>]_vars
    /\ []((/\ SuccessiveIsAdmin
            /\ SameRpcAnswer(hist[1][1].log, calls[1].log)
            /\ SameReplies(hist[1][1].log, calls[1].log))
             => /\ calls[1].ret = hist[1][1].ret
                /\ Len(calls[1].log) = Len(hist[1][1].log))

\* a member was granted twice in a row by the lookup, the table holding the
\* same single row all along
C22_Witness ==
    /\ SuccessiveIsAdmin
    /\ session[1].email = OtherEmail
    /\ hist[1][1].log = calls[1].log
    /\ calls[1].log = << <<"auth.getUser", "ok">>, <<"admin_users.select", "found">> >>
    /\ calls[1].ret = TRUE /\ hist[1][1].ret = TRUE
    /\ Len(admin_users) = 1

\* C23: whenever an isAdmin check of a signed-in user succeeded by email
\* match and the store answers every request, then once the provider's hooks
\* and the callers' chains have run to their end a later isAdmin for that
\* user can succeed at the membership lookup: the lookup of the user's row
\* finds it, without error.
C23_MembershipFollowsEmailMatch ==
    \A p \in Clients :
        (/\ \A q \in Clients : calls[q].pc = "idle" /\ ~HookPending(q)
         /\ session[p].email \in AdminEmails
         /\ \E i \in 1..Len(hist[p]) :
               /\ hist[p][i].op = "isAdmin" /\ hist[p][i].ret
               /\ hist[p][i].userId = session[p].user)
        => LET found == maybeSingle(RowsOf(admin_users, session[p].user))
           IN ~found.error /\ found.data # <<>>

\* the number of requests of a set that a call has issued so far
Requests(log, names) == Cardinality({i \in 1..Len(log) : log[i][1] \in names})

\* C24: no store request is retried: one awardForReport invocation issues at
\* most one ledger insert, at most one account read and at most one account
\* write, one ensureMembership invocation at most one lookup and at most one
\* insert; and an invocation in which one of these requests failed returns
\* false.
C24_NoRetry ==
    \A p \in Clients :
        LET c == calls[p] IN
        /\ c.op = "award" =>
              /\ Requests(c.log, {"token_transactions.insert"}) <= 1
              /\ Requests(c.log, {"user_tokens.select"}) <= 1
              /\ Requests(c.log, {"user_tokens.insert", "user_tokens.update"}) <= 1
        /\ c.op = "addAdminUser" =>
              /\ Requests(c.log, {"admin_users.select"}) <= 1
              /\ Requests(c.log, {"admin_users.insert"}) <= 1
        /\ (c.op \in {"award", "addAdminUser"} /\ c.pc = "done" /\ Failed(c.log))
              => c.ret = FALSE

\* an award whose three requests were issued once each, the last one failing
C24_Witness ==
    \E p \in Clients :
        /\ calls[p].op = "award" /\ calls[p].pc = "done"
        /\ Len(calls[p].log) = 3
        /\ calls[p].log[3] = <<"user_tokens.update", "error">>
        /\ calls[p].ret = FALSE

\* C25: awardForReport returns true only if, in that invocation, the ledger
\* insert succeeded and an account insert or an account update succeeded; no
\* request of the invocation failed and none of the two writes was skipped.
C25_TrueOnlyAfterBothWrites ==
    \A p \in Clients :
        (calls[p].op = "award" /\ calls[p].pc = "done" /\ calls[p].ret = TRUE)
        => LET log == calls[p].log IN
           /\ \E i \in 1..Len(log) : log[i] = <<"token_transactions.insert", "ok">>
           /\ \E i \in 1..Len(log) :
                 log[i] \in {<<"user_tokens.insert", "ok">>,
                             <<"user_tokens.update", "ok">>}
           /\ ~Failed(log)
           /\ BagIn(EarnedRow(calls[p].userId, calls[p].tokenAmount,
                              calls[p].title), token_transactions)
           /\ RowsOf(user_tokens, calls[p].userId) # <<>>

\* an award that returned true after updating an existing account
C25_Witness ==
    \E p \in Clients :
        /\ calls[p].op = "award" /\ calls[p].pc = "done" /\ calls[p].ret = TRUE
        /\ calls[p].log[3] = <<"user_tokens.update", "ok">>

\* C26: a successful redemption lowers the stored balance by exactly the
\* reward's token_cost relative to the value stored immediately before its
\* balance write, whatever accruals completed since the page loaded its
\* balance.
C26_RedemptionLowersByCost ==
    [][\A p \in Clients :
         (/\ calls[p].op = "redeem" /\ calls[p].pc = "rdUpdate"
          /\ calls'[p].pc = "done" /\ calls'[p].ret = TRUE)
         => StoredBalance(calls[p].userId)' =
               StoredBalance(calls[p].userId) - calls[p].cost]_vars

\* C27: redemption is all-or-nothing: when the 'spent' ledger insert or the
\* balance update of a redemption fails, the attempt's redeemed_rewards row
\* is gone and the ledger and the stored balance are what they were before
\* the attempt.
C27_AllOrNothing ==
    [][\A p \in Clients :
         (/\ calls[p].op = "redeem" /\ calls[p].pc \in {"rdTx", "rdUpdate"}
          /\ calls'[p].pc = "done" /\ calls'[p].ret = FALSE)
         => /\ Len(redeemed_rewards') = Len(redeemed_rewards) - 1
            /\ token_transactions' =
                  IF calls[p].pc = "rdUpdate"
                  THEN token_transactions (-)
                          SetToBag({SpentRow(calls[p].userId, calls[p].cost)})
                  ELSE token_transactions
            /\ StoredBalance(calls[p].userId)' =
                  StoredBalance(calls[p].userId)]_vars

\* C28: after any interleaving of addAdminUser(u) calls, the concurrent ones
\* of the AuthProvider hooks and of signIn included, admin_users holds at
\* most one row for u.
C28_OneMembershipPerUser ==
    \A u \in UserIds : Len(RowsOf(admin_users, u)) <= 1

\* C29: a membership row is inserted for a user only if the user's session
\* email is the administrator email or the admin check of the component
\* performing the insert has returned true for that user; in particular
\* AdminEventManager.handleSubmit inserts no row for a user whose check has
\* not returned true.
C29_InsertOnlyForCheckedAdmin ==
    [][\A p \in 1..2 :
         (calls[p].pc = "amInsert" /\ admin_users' # admin_users)
         => \/ session[p].email \in AdminEmails
            \/ Len(hist[1]) >= 2 /\ hist[1][2].ret]_vars

\* the tokens that the reports of a user stored so far are worth
RECURSIVE ReportTokens(_, _)
ReportTokens(rows, u) ==
    IF rows = <<>> THEN 0
    ELSE (IF Head(rows).user_id = u
          THEN getTokensForWasteSize(Head(rows).waste_size) ELSE 0)
         + ReportTokens(Tail(rows), u)

\* C30: in ReportWaste.handleSubmit the award is attempted only after the
\* waste_reports insert has succeeded: an award in progress belongs to a
\* stored report, the ledger and the accounts never hold more than the
\* stored reports are worth, a submission that ends in the error toast has
\* changed neither ledger nor accounts, and when the award returns false the
\* report stays stored and the submission ends in the success toast.
C30_AwardOnlyAfterReport ==
    /\ [](\A p \in Clients :
            /\ calls[p].op = "award" =>
                  \E i \in 1..Len(waste_reports) :
                     /\ waste_reports[i].user_id = calls[p].userId
                     /\ waste_reports[i].waste_size = calls[p].wasteSize
                     /\ waste_reports[i].title = calls[p].title
            /\ \A u \in UserIds :
                  /\ LedgerTotal(u, "earned") <= ReportTokens(waste_reports, u)
                  /\ StoredBalance(u) <= ReportTokens(waste_reports, u))
    /\ [][\A p \in Clients :
            /\ (reportPage[p].pc \in {"upload", "insert"} /\
                reportPage'[p].toast = "error")
               => /\ UNCHANGED <<token_transactions, user_tokens, waste_reports>>
                  /\ calls[p].pc = "idle" /\ calls'[p].pc = "idle"
            /\ (reportPage[p].pc = "award" /\ reportPage'[p].pc = "form" /\
                calls[p].ret = FALSE)
               => /\ reportPage'[p].toast = "success"
                  /\ waste_reports' = waste_reports
                  /\ \E i \in 1..Len(waste_reports') :
                        /\ waste_reports'[i].user_id = calls[p].userId
                        /\ waste_reports'[i].title = calls[p].title]_vars

\* a submission whose report was stored and whose award failed at the
\* account read, after the ledger insert: success toast, tokenSuccess false,
\* the report kept
C30_Witness ==
    /\ reportPage[1].pc = "form" /\ reportPage[1].toast = "success"
    /\ reportPage[1].tokenSuccess = FALSE
    /\ Len(waste_reports) = 1 /\ waste_reports[1].waste_size = "large"
    /\ LedgerTotal("u2", "earned") = 30
    /\ user_tokens = <<>>

====
